---- MODULE Spec2Model ----
(***************************************************************************)
(* The versioned review store (backend/lambda/dynamodb_client.py), the     *)
(* Lambda handlers that write to it (api_handler.py, ai_reviewer.py,       *)
(* pr_review_handler.py, webhook_handler.py) and the model invocation      *)
(* pipeline (bedrock_service.py) with its scoring (risk_scoring.py).       *)
(*                                                                         *)
(* The specifications share the variables:                                 *)
(*   SpecStore     sequential DynamoDBClient calls, long version chains    *)
(*   Spec          concurrent handler invocations, each store call a step  *)
(*   SpecRace      Spec with API creates and updates only                  *)
(*   SpecPipeline  one call of a BedrockService method that loops over     *)
(*                 MODELS, step by step                                    *)
(*   SpecPipelineFair  SpecPipeline where a started call keeps running     *)
(*   SpecInvoke    one _invoke_model call, for any model_config            *)
(*   SpecValidator _validate_schema applied to one parsed response         *)
(*   SpecBuilder   _build_review_result applied to one parsed response     *)
(*   SpecQuery     DynamoDBClient.query_reviews on short version chains    *)
(*   SpecRoundTrip _serialize and _deserialize applied to one review item  *)
(*   SpecPrompt    the prompt compiler called at different times           *)
(*   SpecScoring   one call of a function of risk_scoring.py               *)
(*   SpecApi       POST and PUT /api/reviews over JSON bodies              *)
(*   SpecReviewer  ai_reviewer invocations one after another on reviews    *)
(*                 with a history                                          *)
(***************************************************************************)
EXTENDS Integers, Sequences, FiniteSets, TLC

VARIABLES
    table,        \* the DynamoDB table: a set of items, unique per (PK, SK)
    ret,          \* what the last call returned or raised (SpecStore, SpecQuery,
                  \* SpecRoundTrip, SpecPrompt, SpecScoring, SpecApi)
    updates_ok,   \* SpecStore: per review id, number of update_review calls that returned
    inv,          \* Spec: per Lambda execution environment, the invocation in progress
    started,      \* Spec: number of handler invocations started
    pl            \* SpecPipeline: the review_terraform call in progress

vars == <<table, ret, updates_ok, inv, started, pl>>

(***************************************************************************)
(* Bounds                                                                  *)
(***************************************************************************)
MaxUpdates == 11

MaxReviews == 2

\* Spec: Lambda execution environments running at once, and handler
\* invocations started in all
MaxConcurrent == 2
MaxInvocations == 3

\* uuid4 values, numbered: each create path draws one that no stored row uses.
\* 0 stands for the empty string, which is no review's id.
ReviewIds == 1..MaxReviews
EmptyId == 0

(***************************************************************************)
(* Python values.  Values of different Python types are tagged records so  *)
(* that any two of them can be compared.                                   *)
(***************************************************************************)
PyNone == [t |-> "NoneType"]
\* str(None), the four characters 'None'
StrNone == [t |-> "str", s |-> "None"]
PyInt(n) == [t |-> "int", n |-> n]
\* a key that a dict (a JSON body, update_data) does not hold
Unset == [t |-> "unset"]
Val(v) == [t |-> "val", v |-> v]

Statuses == {"pending", "in_progress", "completed", "failed"}

(***************************************************************************)
(* AIReviewResult, as far as the store and the handlers look at it:        *)
(* overall_risk_score in hundredths, the findings with their optional      *)
(* line_number, and the 'error' entry of review_metadata.                  *)
(***************************************************************************)
AIResult(rid, score, findings, err) ==
    [t |-> "AIReviewResult", review_id |-> rid, overall_risk_score |-> score,
     reliability_score |-> 50, findings |-> findings,
     cost_optimizations |-> <<>>, single_points_of_failure |-> <<>>,
     fix_suggestions |-> <<>>, recommendations |-> <<>>, error |-> err]

\* pydantic: Finding.line_number is Optional[int], confidence_score is
\* Field(ge=0.0, le=1.0)
FindingValid(f) ==
    /\ f.line_number.t \in {"NoneType", "int"}
    /\ f.confidence_score \in 0..100

\* a model without the Field(ge=0.0, le=1.0) constraints
AIResultValid_any_score(v) == v = PyNone \/ v.t = "AIReviewResult"

\* pydantic: Optional[AIReviewResult]; a str is neither None nor a dict
AIResultValid(v) ==
    \/ v = PyNone
    \/ /\ v.t = "AIReviewResult"
       /\ v.overall_risk_score \in 0..100
       /\ v.reliability_score \in 0..100
       /\ \A i \in DOMAIN v.findings : FindingValid(v.findings[i])

\* Review(**kwargs) returns (TRUE) or raises ValidationError (FALSE)
ReviewValid(r) ==
    /\ r.status \in Statuses
    /\ AIResultValid(r.ai_review_result)

(***************************************************************************)
(* DynamoDBClient                                                          *)
(***************************************************************************)
\* the else branch of _serialize: str(obj) for None
SerializeOptional(v) == IF v = PyNone THEN StrNone ELSE v

\* Decimal(str(obj)) of a float and float(obj) of a Decimal: str gives the
\* digits that read back as the same float, so the value is kept
Decimal(x) == [t |-> "Decimal", n |-> x]
Float(d) == d.n

SerializeFinding(f) ==
    [f EXCEPT !.line_number = SerializeOptional(@),
              !.confidence_score = Decimal(@)]

SerializeAIResult(v) ==
    IF v.t = "AIReviewResult"
    THEN [v EXCEPT !.overall_risk_score = Decimal(@),
                   !.reliability_score = Decimal(@),
                   !.findings = [i \in DOMAIN @ |-> SerializeFinding(@[i])],
                   !.cost_optimizations =
                        [i \in DOMAIN @ |-> SerializeFinding(@[i])],
                   !.single_points_of_failure =
                        [i \in DOMAIN @ |-> SerializeFinding(@[i])]]
    ELSE SerializeOptional(v)

_serialize(item) ==
    [item EXCEPT !.ai_review_result = SerializeAIResult(@),
                 !.previous_version_id = SerializeOptional(@),
                 !.spacelift_run_id = SerializeOptional(@)]

\* _deserialize has a branch for dict, list and Decimal and returns every
\* other value as it is: a str stays a str
DeserializeFinding(f) == [f EXCEPT !.confidence_score = Float(@)]

DeserializeAIResult(v) ==
    IF v.t = "AIReviewResult"
    THEN [v EXCEPT !.overall_risk_score = Float(@),
                   !.reliability_score = Float(@),
                   !.findings = [i \in DOMAIN @ |-> DeserializeFinding(@[i])],
                   !.cost_optimizations =
                        [i \in DOMAIN @ |-> DeserializeFinding(@[i])],
                   !.single_points_of_failure =
                        [i \in DOMAIN @ |-> DeserializeFinding(@[i])]]
    ELSE v

_deserialize(item) == [item EXCEPT !.ai_review_result = DeserializeAIResult(@)]

\* str(n): the decimal digits of n
RECURSIVE Digits(_)
Digits(n) == IF n < 10 THEN <<n>> ELSE Append(Digits(n \div 10), n % 10)

\* f'VERSION#{version}': the prefix is common to all sort keys, the digits order them
VersionKey(version) == Digits(version)

\* string order of two sort keys (DynamoDB orders S keys by their bytes)
RECURSIVE KeyLess(_, _)
KeyLess(a, b) ==
    IF a = <<>> THEN b # <<>>
    ELSE IF b = <<>> THEN FALSE
    ELSE IF Head(a) # Head(b) THEN Head(a) < Head(b)
    ELSE KeyLess(Tail(a), Tail(b))

\* Table.put_item: unconditional, replaces the item with the same key
\* a put_item that adds the item and leaves the one under its key in place
put_item_keeps_old(tbl, item) == tbl \cup {item}

put_item(tbl, item) ==
    {it \in tbl : ~(it.PK = item.PK /\ it.SK = item.SK)} \cup {item}

\* Table.get_item: the item with that key, or no 'Item'
get_item(tbl, pk, sk) ==
    LET hit == {it \in tbl : it.PK = pk /\ it.SK = sk}
    IN  IF hit = {} THEN PyNone ELSE CHOOSE it \in hit : TRUE

\* Table.query(PK = :pk, ScanIndexForward=False, Limit=1): first item in
\* descending sort-key order
QueryLatest(tbl, pk) ==
    LET rows == {it \in tbl : it.PK = pk}
    IN  IF rows = {} THEN PyNone
        ELSE CHOOSE it \in rows : \A o \in rows : o = it \/ KeyLess(o.SK, it.SK)

\* 'if v' for an Optional[str]: None and '' are false
Truthy(v) == v # PyNone /\ v.s # ""

\* the item create_review builds from a Review; created_at, the sort key of
\* both indexes, is the same in every version of a review
ReviewItem(review) ==
    [PK |-> review.review_id,
     SK |-> VersionKey(review.version),
     GSI1PK |-> IF Truthy(review.spacelift_run_id)
                THEN [t |-> "SPACELIFT_RUN", run |-> review.spacelift_run_id.s]
                ELSE [t |-> "REVIEW", review_id |-> review.review_id],
     GSI2PK |-> [t |-> "STATUS", status |-> review.status],
     review_id |-> review.review_id,
     terraform_code |-> review.terraform_code,
     spacelift_run_id |-> review.spacelift_run_id,
     spacelift_context |-> review.spacelift_context,
     status |-> review.status,
     ai_review_result |-> review.ai_review_result,
     created_at |-> review.created_at,
     version |-> review.version,
     previous_version_id |-> review.previous_version_id]

\* create_review: the table after put_item, and the value returned
create_review_table(tbl, review) == put_item(tbl, _serialize(ReviewItem(review)))
create_review_result(review) == _deserialize(_serialize(ReviewItem(review)))

\* get_review: 'if version' is false for None and for 0
get_review(tbl, review_id, version) ==
    IF version # PyNone /\ version.n # 0
    THEN LET item == get_item(tbl, review_id, VersionKey(version.n))
         IN  IF item = PyNone THEN PyNone ELSE _deserialize(item)
    ELSE LET item == QueryLatest(tbl, review_id)
         IN  IF item = PyNone THEN PyNone ELSE _deserialize(item)

\* datetime.utcnow().isoformat() when the review with the rid-th uuid is
\* created: uuids are numbered in the order they are drawn and the clock
\* does not go back, so the readings are numbered like the ids
created_at_of(rid) == [t |-> "utc", n |-> rid]

\* f"{review_id}#VERSION#{current['version']}"
PreviousVersionId(review_id, version) ==
    [t |-> "link", review_id |-> review_id, version |-> version]

\* update_review, after the read: {**current, **update_data, 'version': ...,
\* 'previous_version_id': ...}, the keyword arguments given to Review.  The
\* last two entries of the dict display replace what current and update_data
\* hold under those keys.
MergedReview(current, review_id, update_data) ==
    [review_id |-> current.review_id,
     terraform_code |-> current.terraform_code,
     spacelift_run_id |-> current.spacelift_run_id,
     spacelift_context |-> current.spacelift_context,
     status |-> IF update_data.status = Unset THEN current.status
                ELSE update_data.status.v,
     ai_review_result |-> IF update_data.ai_review_result = Unset
                          THEN current.ai_review_result
                          ELSE update_data.ai_review_result.v,
     created_at |-> current.created_at,
     version |-> current.version + 1,
     previous_version_id |-> PreviousVersionId(review_id, current.version)]

\* update_review without the 'if not current' check: a missing review is
\* started at version 1 instead of raising
update_review_from_upsert(tbl, current, review_id, update_data) ==
    LET base == IF current = PyNone
                THEN [review_id |-> review_id, terraform_code |-> "",
                      spacelift_run_id |-> PyNone,
                      spacelift_context |-> "ctx_joinable",
                      status |-> "pending", ai_review_result |-> PyNone,
                      created_at |-> created_at_of(review_id),
                      version |-> 0, previous_version_id |-> PyNone]
                ELSE current
        review == MergedReview(base, review_id, update_data)
    IN  IF ~ReviewValid(review)
        THEN [raised |-> "ValidationError", table |-> tbl, row |-> PyNone]
        ELSE [raised |-> "no",
              table |-> create_review_table(tbl, review),
              row |-> create_review_result(review)]

\* update_review from the row it read: raise, or write the next version
update_review_from(tbl, current, review_id, update_data) ==
    IF current = PyNone
    THEN [raised |-> "ValueError", table |-> tbl, row |-> PyNone]
    ELSE LET review == MergedReview(current, review_id, update_data)
         IN  IF ~ReviewValid(review)
             THEN [raised |-> "ValidationError", table |-> tbl, row |-> PyNone]
             ELSE [raised |-> "no",
                   table |-> create_review_table(tbl, review),
                   row |-> create_review_result(review)]

\* update_review as one call: the read of the latest version, then the above
update_review(tbl, review_id, update_data) ==
    update_review_from(tbl, get_review(tbl, review_id, PyNone), review_id,
                       update_data)

\* update_data: the keys a caller may put in it; the API passes the fields
\* set in the ReviewUpdateRequest, ai_reviewer a status and an AI result
UpdateData(status, ai, version) ==
    [status |-> status, ai_review_result |-> ai, version |-> version,
     previous_version_id |-> Unset]

\* update_data that also names previous_version_id
UpdateDataLinked(status, ai, version, link) ==
    [UpdateData(status, ai, version) EXCEPT !.previous_version_id = link]

(***************************************************************************)
(* What the create paths and the clients of the API send.                  *)
(***************************************************************************)
\* the Review every create path builds: status='pending', version and the
\* optional fields at their defaults
NewReview(rid, code, run_id, ctx) ==
    [review_id |-> rid, terraform_code |-> code, spacelift_run_id |-> run_id,
     spacelift_context |-> ctx, status |-> "pending",
     ai_review_result |-> PyNone, created_at |-> created_at_of(rid), version |-> 1,
     previous_version_id |-> PyNone]

\* a context whose changed_files is a list of strings, and one where it is a
\* list holding a number (', '.join raises TypeError on it)
Contexts == {"ctx_joinable", "ctx_unjoinable"}

\* an AI result a client puts in a PUT body: one without findings, and one
\* with a finding that has no line_number
ClientResults ==
    {AIResult(EmptyId, 20, <<>>, FALSE),
     AIResult(EmptyId, 70,
              <<[line_number |-> PyNone, confidence_score |-> 90]>>, FALSE)}

\* AI results in a PUT body with a score outside [0,1]
RejectedResults ==
    {AIResult(EmptyId, 150, <<>>, FALSE),
     AIResult(EmptyId, 20,
              <<[line_number |-> PyInt(3), confidence_score |-> 150]>>, FALSE)}

\* uuid.uuid4(): an id no row of the table uses
FreshIds(tbl) == {r \in ReviewIds : \A it \in tbl : it.PK # r}
FreshId(tbl) == CHOOSE r \in FreshIds(tbl) : \A o \in FreshIds(tbl) : o = r \/ r < o

Idle == [pc |-> "idle"]
NoRet == [op |-> "none"]
Procs == 1..MaxConcurrent
PyStr(s) == [t |-> "str", s |-> s]

(***************************************************************************)
(* BedrockService                                                          *)
(***************************************************************************)
\* MODELS, in priority order; 'family' is the substring of the id that
\* _invoke_model dispatches on
MODELS ==
    <<[name |-> "Claude 3.5 Sonnet", family |-> "claude"],
      [name |-> "Claude 3 Opus", family |-> "claude"],
      [name |-> "Llama 3 70B", family |-> "llama"]>>

\* _invoke_model: max_retries and backoff
max_retries == 3
backoff == 1

\* values of prompt_type: the three of PROMPT_VERSIONS and any other string
PromptTypes == {"pr_review", "failure_analysis", "fix_effectiveness", "other"}

\* what one bedrock_runtime.invoke_model call can do: raise ClientError with
\* code ThrottlingException, raise ClientError with another code, raise an
\* exception that is no ClientError (a read timeout), or return a text
Outcomes == {"throttled", "client_error", "timeout", "text"}

(***************************************************************************)
(* Parsed JSON.  A number is kept in hundredths, a list by its elements, a *)
(* dict by the keys the code reads, with Missing for a key it lacks.       *)
(***************************************************************************)
Missing == [t |-> "missing"]
Num(n) == [t |-> "num", n |-> n]
List(elems) == [t |-> "list", v |-> elems]

\* 'key in obj' for the value v = obj.get(key, Missing) of a container obj:
\* a dict has the key or not, a str or a list does not contain it, and
\* None or a number raises TypeError
In(obj, v) ==
    IF obj.t = "dict" THEN (IF v = Missing THEN "no" ELSE "yes")
    ELSE IF obj.t \in {"str", "list"} THEN "no"
    ELSE "TypeError"

\* obj[key] read through a record that holds the keys of a dict only
Get(obj, key) == IF obj.t = "dict" THEN obj[key] ELSE Missing

\* '0.0 <= v <= 1.0': a comparison of a float with a str, a list, a dict or
\* None raises TypeError
Between0And1(v) ==
    IF v.t # "num" THEN "TypeError"
    ELSE IF 0 <= v.n /\ v.n <= 100 THEN "yes" ELSE "no"

\* a finding as a backend reports it
ReportedFinding(severity, line_number, file_path, confidence) ==
    [t |-> "dict", severity |-> severity, line_number |-> line_number,
     file_path |-> file_path, confidence_score |-> confidence]

SecurityData(total_findings, high, medium, low, findings) ==
    [t |-> "dict", total_findings |-> total_findings, high_severity |-> high,
     medium_severity |-> medium, low_severity |-> low, findings |-> findings]

CostData(monthly, optimizations) ==
    [t |-> "dict", estimated_monthly_cost |-> monthly,
     cost_optimizations |-> optimizations]

ReliabilityData(score, spofs) ==
    [t |-> "dict", reliability_score |-> score,
     single_points_of_failure |-> spofs]

\* the top-level keys the three schemas require
PrReviewKeys ==
    {"security_analysis", "cost_analysis", "reliability_analysis",
     "overall_risk_score", "fix_suggestions", "review_metadata"}
FailureAnalysisKeys == {"root_cause", "recommendations", "confidence_score"}
FixEffectivenessKeys ==
    {"fix_effectiveness_score", "findings_resolved", "risk_reduction"}
TopLevelKeys == PrReviewKeys \cup FailureAnalysisKeys \cup FixEffectivenessKeys

\* a response with every key of every schema, all values in range
FullPayload ==
    [k \in TopLevelKeys |->
        CASE k = "security_analysis" -> SecurityData(Num(0), Num(0), Num(0), Num(0), List(<<>>))
          [] k = "cost_analysis" -> CostData(Num(1000), List(<<>>))
          [] k = "reliability_analysis" -> ReliabilityData(Num(80), List(<<>>))
          [] k = "overall_risk_score" -> Num(30)
          [] k = "fix_suggestions" -> List(<<>>)
          [] k = "review_metadata" -> [t |-> "dict", model_used |-> Missing]
          [] k = "root_cause" -> PyStr("cause")
          [] k = "recommendations" -> List(<<>>)
          [] k = "confidence_score" -> Num(90)
          [] k = "fix_effectiveness_score" -> Num(50)
          [] k = "findings_resolved" -> [t |-> "dict"]
          [] k = "risk_reduction" -> [t |-> "dict"]]

\* data without the keys of S
Without(data, S) == [k \in TopLevelKeys |-> IF k \in S THEN Missing ELSE data[k]]

\* 'for key in required_keys: if key not in data: raise ValueError'
MissingRequired(data, required) == \E k \in required : data[k] = Missing

\* the asserts of _validate_pr_review_schema in order, up to the first that
\* fails ("AssertionError") or cannot be evaluated ("TypeError")
PrReviewAsserts(data) ==
    LET sec == data["security_analysis"]
        cost == data["cost_analysis"]
        rel == data["reliability_analysis"]
        checks ==
          << In(sec, Get(sec, "total_findings")),
             In(sec, Get(sec, "findings")),
             IF Get(sec, "findings").t = "list" THEN "yes" ELSE "no",
             In(cost, Get(cost, "estimated_monthly_cost")),
             IF Get(cost, "estimated_monthly_cost").t = "num" THEN "yes" ELSE "no",
             In(rel, Get(rel, "reliability_score")),
             Between0And1(Get(rel, "reliability_score")),
             Between0And1(data["overall_risk_score"]) >>
        failed == {i \in DOMAIN checks : checks[i] # "yes"}
        first == CHOOSE i \in failed : \A j \in failed : i <= j
    IN  IF failed = {} THEN "no"
        ELSE IF checks[first] = "no" THEN "AssertionError" ELSE "TypeError"

_validate_pr_review_schema(data) ==
    IF MissingRequired(data, PrReviewKeys) THEN "ValueError"
    ELSE PrReviewAsserts(data)

_validate_failure_analysis_schema(data) ==
    IF MissingRequired(data, FailureAnalysisKeys) THEN "ValueError" ELSE "no"

\* a validator that looks at no key
_validate_no_keys(data) == "no"

_validate_fix_effectiveness_schema(data) ==
    IF MissingRequired(data, FixEffectivenessKeys) THEN "ValueError" ELSE "no"

\* _validate_schema: "no" when it returns, else the exception it raises
_validate_schema(data, prompt_type) ==
    IF prompt_type = "pr_review" THEN _validate_pr_review_schema(data)
    ELSE IF prompt_type = "failure_analysis"
    THEN _validate_failure_analysis_schema(data)
    ELSE IF prompt_type = "fix_effectiveness"
    THEN _validate_fix_effectiveness_schema(data)
    ELSE "ValueError"

\* the text a backend returns: no JSON object in it; a JSON object that lacks
\* a required key of the task's schema; one with all keys and a score outside
\* [0,1]; one that passes the schema
Texts == {"not_json", "missing_key", "out_of_range", "valid"}

\* _get_prompt_template: "no" when it returns the prompt, else the exception.
\* Only the pr_review template reads the context: ', '.join(changed_files)
\* raises TypeError unless every element is a str.
_get_prompt_template(prompt_type, ctx) ==
    IF prompt_type = "pr_review"
    THEN IF ctx = "ctx_unjoinable" THEN "TypeError" ELSE "no"
    ELSE IF prompt_type \in {"failure_analysis", "fix_effectiveness"} THEN "no"
    ELSE "ValueError"

(***************************************************************************)
(* risk_scoring.py.  Scores are fixed-point: Fixed(n) stands for n/100, in *)
(* units small enough that every product and quotient below is exact.      *)
(***************************************************************************)
Fixed(hundredths) == hundredths * 40000

Min(a, b) == IF a <= b THEN a ELSE b
Max(a, b) == IF a >= b THEN a ELSE b

\* RiskScoringAlgorithm._calculate_security_score
_calculate_security_score(security) ==
    IF security.total_findings = 0 THEN 0
    ELSE LET weighted_score == 10 * security.high_severity
                               + 5 * security.medium_severity
                               + 2 * security.low_severity
             normalized == Min(Fixed(100), weighted_score * Fixed(1))
         IN  IF security.high_severity > 0
             THEN Min(Fixed(100), (normalized * 3) \div 2)
             ELSE normalized

\* RiskScoringAlgorithm._calculate_cost_score; the monthly cost is in cents
_calculate_cost_score(cost) ==
    LET cost_base == Min(Fixed(100), cost.estimated_monthly_cost * 4)
        optimization_score ==
            Min(Fixed(50), Len(cost.cost_optimizations) * Fixed(10))
    IN  Min(Fixed(100), cost_base + optimization_score)

\* RiskScoringAlgorithm._calculate_reliability_score
_calculate_reliability_score(reliability) ==
    LET base_risk == Fixed(100) - Fixed(reliability.reliability_score)
        spof_adjustment ==
            Min(Fixed(30), Len(reliability.single_points_of_failure) * Fixed(10))
    IN  Min(Fixed(100), base_risk + spof_adjustment)

\* the three category scores with the same weight on security and cost
calculate_overall_risk_cost_heavy(security, cost, reliability) ==
    LET overall_risk == (_calculate_security_score(security)
                         + 2 * _calculate_cost_score(cost)
                         + _calculate_reliability_score(reliability)) \div 4
    IN  Min(Fixed(100), Max(0, overall_risk))

\* RiskScoringAlgorithm.calculate_overall_risk: weights 0.50, 0.25, 0.25
calculate_overall_risk(security, cost, reliability) ==
    LET overall_risk == (2 * _calculate_security_score(security)
                         + _calculate_cost_score(cost)
                         + _calculate_reliability_score(reliability)) \div 4
    IN  Min(Fixed(100), Max(0, overall_risk))

\* thresholds compared with > where the source has >=
get_risk_level_strict(risk_score) ==
    IF risk_score > Fixed(70) THEN "high"
    ELSE IF risk_score > Fixed(40) THEN "medium"
    ELSE "low"

\* RiskScoringAlgorithm.get_risk_level
get_risk_level(risk_score) ==
    IF risk_score >= Fixed(70) THEN "high"
    ELSE IF risk_score >= Fixed(40) THEN "medium"
    ELSE "low"

\* DynamoDBClient.get_analytics: the key of reviews_by_risk that is
\* incremented for a review whose AI result has this overall_risk_score
reviews_by_risk_key(risk_score) ==
    IF risk_score < Fixed(33) THEN "low"
    ELSE IF risk_score < Fixed(67) THEN "medium"
    ELSE "high"

\* str.lower() on the model names that have an upper-case letter
lower(name) ==
    IF name = "Claude-3-Opus" THEN "claude-3-opus"
    ELSE IF name = "LLAMA3-70B" THEN "llama3-70b"
    ELSE name

\* a lookup of the name as it is written
MODEL_CONFIDENCE_BASE_exact(model_used) ==
    IF model_used = "claude-3-5-sonnet" THEN 950
    ELSE IF model_used = "claude-3-opus" THEN 980
    ELSE IF model_used = "llama3-70b" THEN 850
    ELSE 800

\* ConfidenceScoringAlgorithm.MODEL_CONFIDENCE_BASE.get(model_used.lower(),
\* MODEL_CONFIDENCE_BASE['default']), in thousandths
MODEL_CONFIDENCE_BASE(model_used) ==
    IF lower(model_used) = "claude-3-5-sonnet" THEN 950
    ELSE IF lower(model_used) = "claude-3-opus" THEN 980
    ELSE IF lower(model_used) = "llama3-70b" THEN 850
    ELSE 800

\* ConfidenceScoringAlgorithm.calculate_finding_confidence, in thousandths
calculate_finding_confidence(finding, model_used, has_line_number, has_file_path) ==
    LET base_confidence == MODEL_CONFIDENCE_BASE(model_used)
        specificity_bonus == (IF has_line_number THEN 30 ELSE 0)
                             + (IF has_file_path THEN 20 ELSE 0)
        severity_adjustment ==
            IF finding.severity = "medium" THEN 0 - 20
            ELSE IF finding.severity = "low" THEN 0 - 50
            ELSE 0
        confidence == base_confidence + specificity_bonus + severity_adjustment
    IN  Min(1000, Max(0, confidence))

\* d.get(key, default) for whole numbers
IntOr(v, default) == IF v = Missing THEN default ELSE v.n \div 100

\* data.get(key, []) for v = data.get(key, Missing)
ListOr(v) == IF v = Missing THEN <<>> ELSE v.v

\* the three aggregates _build_review_result builds (lines 602-629)
BuiltSecurity(parsed_data) ==
    LET d == parsed_data["security_analysis"]
    IN  [total_findings |-> IntOr(Get(d, "total_findings"), 0),
         high_severity |-> IntOr(Get(d, "high_severity"), 0),
         medium_severity |-> IntOr(Get(d, "medium_severity"), 0),
         low_severity |-> IntOr(Get(d, "low_severity"), 0),
         findings |-> ListOr(Get(d, "findings"))]

BuiltCost(parsed_data) ==
    LET d == parsed_data["cost_analysis"]
        monthly == Get(d, "estimated_monthly_cost")
    IN  [estimated_monthly_cost |-> IF monthly = Missing THEN 0 ELSE monthly.n,
         cost_optimizations |-> ListOr(Get(d, "cost_optimizations"))]

BuiltReliability(parsed_data) ==
    LET d == parsed_data["reliability_analysis"]
        score == Get(d, "reliability_score")
    IN  [reliability_score |-> IF score = Missing THEN 50 ELSE score.n,
         single_points_of_failure |->
             ListOr(Get(d, "single_points_of_failure"))]

\* json.loads of the JSON object found in the text: "missing_key" lacks one
\* required key of each schema, "out_of_range" has overall_risk_score 1.5
json_loads(text) ==
    IF text = "missing_key"
    THEN Without(FullPayload, {"review_metadata", "confidence_score", "risk_reduction"})
    ELSE IF text = "out_of_range"
    THEN [FullPayload EXCEPT !["overall_risk_score"] = Num(150)]
    ELSE FullPayload

\* _parse_and_validate_json: "no" when it returns the parsed dict
_parse_and_validate_json(text, prompt_type) ==
    IF text = "not_json" THEN "ValueError"
    ELSE _validate_schema(json_loads(text), prompt_type)

\* Finding(**f): pydantic checks the severity, the optional line number and
\* the range of confidence_score
FindingRaises(f) ==
    IF f.t # "dict" THEN "TypeError"
    ELSE IF /\ f.severity \in {"high", "medium", "low"}
            /\ f.line_number.t \in {"NoneType", "num"}
            /\ f.file_path.t \in {"NoneType", "str"}
            /\ Between0And1(f.confidence_score) = "yes"
    THEN "no" ELSE "ValidationError"

\* [Finding(**f) for f in obj.get(key, [])] for v = obj.get(key, Missing)
FindingsRaise(v) ==
    IF v = Missing THEN "no"
    ELSE IF v.t # "list" THEN "TypeError"
    ELSE IF \A i \in DOMAIN v.v : FindingRaises(v.v[i]) = "no" THEN "no"
    ELSE LET i == CHOOSE j \in DOMAIN v.v :
                    /\ FindingRaises(v.v[j]) # "no"
                    /\ \A k \in DOMAIN v.v : FindingRaises(v.v[k]) # "no" => j <= k
         IN  FindingRaises(v.v[i])

\* parsed_data.get(key, {}) followed by .get on the value
AnalysisRaises(v) ==
    IF v = Missing \/ v.t = "dict" THEN "no" ELSE "AttributeError"

\* the statements of _build_review_result before line 639, in order: the
\* exception of the first that raises, or "no"
BuildAnalysesRaise(parsed_data) ==
    LET sec == parsed_data["security_analysis"]
        cost == parsed_data["cost_analysis"]
        rel == parsed_data["reliability_analysis"]
        score == Get(rel, "reliability_score")
        steps ==
          << AnalysisRaises(sec),
             FindingsRaise(Get(sec, "findings")),
             AnalysisRaises(cost),
             FindingsRaise(Get(cost, "cost_optimizations")),
             IF Get(cost, "estimated_monthly_cost").t \in {"num", "missing"}
             THEN "no" ELSE "ValidationError",
             AnalysisRaises(rel),
             FindingsRaise(Get(rel, "single_points_of_failure")),
             IF score = Missing \/ Between0And1(score) = "yes"
             THEN "no" ELSE "ValidationError",
             IF parsed_data["overall_risk_score"].t \in {"num", "NoneType", "missing"}
             THEN "no" ELSE "TypeError" >>
        raising == {i \in DOMAIN steps : steps[i] # "no"}
        first == CHOOSE i \in raising : \A j \in raising : i <= j
    IN  IF raising = {} THEN "no" ELSE steps[first]

\* _build_review_result: line 639 reads the local review_metadata, which is
\* assigned only at line 654, so a call that gets that far raises
\* UnboundLocalError; no path reaches the return of line 658
_build_review_result(parsed_data) ==
    [raised |-> IF BuildAnalysesRaise(parsed_data) # "no"
                THEN BuildAnalysesRaise(parsed_data)
                ELSE "UnboundLocalError",
     result |-> PyNone]

\* a fallback whose review_metadata has no 'error' entry
_create_fallback_unmarked ==
    [AIResult(EmptyId, 50, <<>>, FALSE)
        EXCEPT !.recommendations = <<"AI service unavailable">>]

\* _create_fallback_result: scores 0.5, empty lists, one recommendation,
\* review_metadata['error'] set
_create_fallback_result ==
    [AIResult(EmptyId, 50, <<>>, TRUE)
        EXCEPT !.recommendations = <<"AI service unavailable">>]

\* _create_fallback_failure_analysis and _create_fallback_fix_analysis:
\* dicts with confidence_score 0.0 and analysis_metadata['error'] set
_create_fallback_failure_analysis ==
    [t |-> "dict", kind |-> "failure_analysis", confidence_score |-> Num(0),
     error |-> TRUE]

_create_fallback_fix_analysis ==
    [t |-> "dict", kind |-> "fix_effectiveness", confidence_score |-> Num(0),
     error |-> TRUE]

\* the parsed dict of backend number 'model', as analyze_failure and
\* compare_fix_effectiveness return it
ParsedResult(model, data) == [t |-> "parsed", model |-> model, data |-> data]

\* what an attempt of _invoke_model is logged as: no call is made for an id
\* that holds neither 'claude' nor 'llama'
Attempted(family, outcome) ==
    IF family \notin {"claude", "llama"} THEN "unsupported" ELSE outcome

\* a retry loop that sleeps and retries after ThrottlingException only
_invoke_model_attempt_throttle_only(family, attempt, outcome) ==
    IF Attempted(family, outcome) = "text" THEN [do |-> "return", exc |-> "no"]
    ELSE IF outcome = "throttled" /\ attempt < max_retries - 1
    THEN [do |-> "sleep", exc |-> "ClientError"]
    ELSE [do |-> "raise", exc |-> "Exception"]

\* a retry loop that makes one more pass than max_retries
_invoke_model_attempt_extra_pass(family, attempt, outcome) ==
    IF Attempted(family, outcome) = "text" THEN [do |-> "return", exc |-> "no"]
    ELSE IF attempt < max_retries
    THEN [do |-> "sleep", exc |-> "Exception"]
    ELSE [do |-> "raise", exc |-> "Exception"]

\* one pass of 'for attempt in range(max_retries)' in _invoke_model: the
\* text is returned, or the exception is slept on and retried, or raised
_invoke_model_attempt(family, attempt, outcome) ==
    LET retry == attempt < max_retries - 1
        how == Attempted(family, outcome)
    IN  IF how = "text" THEN [do |-> "return", exc |-> "no"]
        ELSE IF how \in {"throttled", "client_error"}
        THEN IF how = "throttled" /\ retry
             THEN [do |-> "sleep", exc |-> "ClientError"]
             ELSE [do |-> "raise", exc |-> "ClientError"]
        ELSE IF retry
        THEN [do |-> "sleep",
              exc |-> IF how = "unsupported" THEN "ValueError" ELSE "Exception"]
        ELSE [do |-> "raise",
              exc |-> IF how = "unsupported" THEN "ValueError" ELSE "Exception"]

\* an except clause that lets AssertionError and UnboundLocalError through
CaughtByLoop_narrow(exc) == exc \in {"ClientError", "ValueError", "Exception"}

\* 'except Exception' in review_terraform: every exception the loop body
\* raises is an Exception
CaughtByLoop(exc) ==
    exc \in {"ClientError", "ValueError", "AssertionError", "TypeError",
             "AttributeError", "UnboundLocalError", "ValidationError",
             "Exception"}

\* review_terraform as its caller sees it: the exception it raises, or the
\* results it can return over all behaviours of the backends
review_terraform_raises(prompt_type, ctx) == _get_prompt_template(prompt_type, ctx)

review_terraform_results(prompt_type) ==
    {_create_fallback_result} \cup
    {_build_review_result(json_loads(text)).result :
        text \in {x \in Texts :
                    /\ _parse_and_validate_json(x, prompt_type) = "no"
                    /\ _build_review_result(json_loads(x)).raised = "no"}}

(***************************************************************************)
(* SpecStore: DynamoDBClient called sequentially.                          *)
(***************************************************************************)
\* update_data of the two kinds the callers pass, a status alone and an AI
\* result; and the same with a version (a field of ReviewUpdateRequest) and
\* with a previous_version_id in it
StoreUpdateInputs ==
    {UpdateData(Val("in_progress"), Unset, Unset),
     UpdateData(Unset, Val(AIResult(EmptyId, 20, <<>>, FALSE)), Unset),
     UpdateData(Val("in_progress"), Unset, Val(7)),
     UpdateDataLinked(Unset, Val(AIResult(EmptyId, 20, <<>>, FALSE)), Unset,
                      Val(PreviousVersionId(EmptyId, 7)))}

\* update_review calls that have returned, over the review ids in S
RECURSIVE UpdatesMade(_)
UpdatesMade(S) ==
    IF S = {} THEN 0
    ELSE LET r == CHOOSE x \in S : TRUE
         IN  updates_ok[r] + UpdatesMade(S \ {r})

InitStore ==
    /\ table = {}
    /\ ret = NoRet
    /\ updates_ok = [r \in ReviewIds |-> 0]
    /\ inv = [p \in Procs |-> Idle]
    /\ started = 0
    /\ pl = Idle

StoreCreate ==
    /\ FreshIds(table) # {}
    /\ \E ctx \in {"ctx_joinable"} :
         LET review == NewReview(FreshId(table), "tf", PyNone, ctx)
         IN  /\ table' = create_review_table(table, review)
             /\ ret' = [op |-> "create", review_id |-> review.review_id,
                        raised |-> "no", row |-> create_review_result(review)]
    /\ UNCHANGED <<updates_ok, inv, started, pl>>

StoreUpdate ==
    /\ UpdatesMade(ReviewIds) < MaxUpdates
    /\ \E rid \in ReviewIds, data \in StoreUpdateInputs :
         LET out == update_review(table, rid, data)
         IN  /\ table' = out.table
             /\ ret' = [op |-> "update", review_id |-> rid, data |-> data,
                        raised |-> out.raised, row |-> out.row]
             /\ updates_ok' = [updates_ok EXCEPT
                                 ![rid] = IF out.raised = "no" THEN @ + 1 ELSE @]
    /\ UNCHANGED <<inv, started, pl>>

StoreGet ==
    /\ \E rid \in ReviewIds :
         ret' = [op |-> "get", review_id |-> rid, raised |-> "no",
                 row |-> get_review(table, rid, PyNone)]
    /\ UNCHANGED <<table, updates_ok, inv, started, pl>>

NextStore == StoreCreate \/ StoreUpdate \/ StoreGet

SpecStore == InitStore /\ [][NextStore]_vars

(***************************************************************************)
(* Claims about the store under sequential calls (SpecStore)               *)
(***************************************************************************)
RowsOf(tbl, rid) == {it \in tbl : it.PK = rid}
\* the row, as get_review and create_review return it, is an item of tbl
Stored(tbl, row) ==
    \E it \in tbl : it.PK = row.PK /\ it.SK = row.SK /\ _deserialize(it) = row
VersionsOf(tbl, rid) == {it.version : it \in RowsOf(tbl, rid)}
MaxVersionOf(tbl, rid) ==
    CHOOSE v \in VersionsOf(tbl, rid) : \A w \in VersionsOf(tbl, rid) : w <= v

\* C1: the store is append-only under sequential create_review and
\* update_review calls: a row once written stays in the table with the same
\* contents, and every call that writes adds a row under a key that did not
\* exist before.
C1_AppendOnly ==
    [][ /\ \A it \in table : it \in table'
        /\ table' # table => Cardinality(table') = Cardinality(table) + 1 ]_vars

\* C2: the k-th update_review call that returns for a review id writes and
\* returns a row whose version is k + 1.
C2_KthUpdateWritesVersionKPlus1 ==
    (ret.op = "update" /\ ret.raised = "no") =>
        /\ ret.row.version = updates_ok[ret.review_id] + 1
        /\ Stored(table, ret.row)

\* C3: get_review(id) without a version returns the row with the numerically
\* maximum version stored for id, and None exactly when id has no row.
C3_GetLatestIsMaxVersion ==
    ret.op = "get" =>
        /\ ret.row = PyNone <=> RowsOf(table, ret.review_id) = {}
        /\ ret.row # PyNone =>
              /\ Stored(RowsOf(table, ret.review_id), ret.row)
              /\ ret.row.version = MaxVersionOf(table, ret.review_id)

\* C5: the stored versions of each review id are 1..n without a gap; the
\* version-1 row has no previous-version link (None); each row of version
\* m > 1 links to version m - 1 of the same review id, which is stored.
C5_GapFreeLinkedChain ==
    \A rid \in ReviewIds :
        /\ VersionsOf(table, rid) = 1..Cardinality(RowsOf(table, rid))
        /\ \A it \in RowsOf(table, rid) :
              IF it.version = 1
              THEN it.previous_version_id = PyNone
              ELSE /\ it.previous_version_id
                        = PreviousVersionId(rid, it.version - 1)
                   /\ it.version - 1 \in VersionsOf(table, rid)

\* C37: the row written by an update has version (latest version + 1) and
\* links to the latest version of the review, also when update_data holds a
\* version or a previous_version_id of its own
C37_StoreSetsVersionAndLink ==
    [][ (ret'.op = "update" /\ ret'.raised = "no") =>
            LET latest == MaxVersionOf(table, ret'.review_id)
            IN  /\ ret'.row.version = latest + 1
                /\ ret'.row.previous_version_id
                      = PreviousVersionId(ret'.review_id, latest)
                /\ ret'.row.SK = VersionKey(latest + 1)
                /\ Stored(table', ret'.row) ]_vars

\* C6: update_review for a review id that has no row raises the not-found
\* error (ValueError) and leaves the table as it was.
C6_UpdateMissingRaisesAndWritesNothing ==
    [][ (ret'.op = "update" /\ RowsOf(table, ret'.review_id) = {}) =>
            (ret'.raised = "ValueError" /\ table' = table) ]_vars

\* an update of a never-created id has raised while another review is stored
C6_Witness ==
    /\ ret.op = "update"
    /\ ret.raised = "ValueError"
    /\ RowsOf(table, ret.review_id) = {}
    /\ table # {}

(***************************************************************************)
(* Spec: the Lambda handlers, invoked concurrently.  Every call to the     *)
(* table (a query, a get, a put) is one step; update_review is a read step *)
(* and a write step.                                                       *)
(***************************************************************************)
\* an invocation inside a handler; 'existing' is what the existence check
\* of ai_reviewer (line 64) read, None when there was no such check
Running(pc, handler, phase, rid, data, current, event_has_id, ctx, existing) ==
    [pc |-> pc, handler |-> handler, phase |-> phase, review_id |-> rid,
     data |-> data, current |-> current, event_has_id |-> event_has_id,
     ctx |-> ctx, existing |-> existing]

\* an invocation that has returned its response; for an update_review that
\* returned: the version it read, the row it wrote, and whether put_item
\* found a row under the key it wrote
Returned(handler, code, rid, read_version, row, replaced) ==
    [pc |-> "returned", handler |-> handler, status_code |-> code,
     review_id |-> rid, read_version |-> read_version, row |-> row,
     replaced |-> replaced]

Return(handler, code, rid) == Returned(handler, code, rid, 0, PyNone, FALSE)

CanStart(p) ==
    /\ inv[p].pc \in {"idle", "returned"}
    /\ started < MaxInvocations

\* bodies of PUT /api/reviews/{reviewId}
ApiUpdateInputs(results) ==
    {UpdateData(st, ai, Unset) :
        st \in {Unset} \cup {Val(x) : x \in Statuses},
        ai \in {Unset} \cup {Val(r) : r \in results}}

\* api_handler.create_review: 400 when ReviewCreateRequest rejects the body
ApiCreate(p) ==
    /\ CanStart(p)
    /\ \E code \in {Unset, Val("tf")}, ctx \in Contexts :
         IF code = Unset
         THEN /\ inv' = [inv EXCEPT ![p] = Return("api_create", 400, EmptyId)]
              /\ table' = table
         ELSE /\ FreshIds(table) # {}
              /\ LET review == NewReview(FreshId(table), code.v, PyNone, ctx)
                 IN  /\ table' = create_review_table(table, review)
                     /\ inv' = [inv EXCEPT
                                  ![p] = Return("api_create", 201, review.review_id)]
    /\ started' = started + 1
    /\ UNCHANGED <<ret, updates_ok, pl>>

\* pr_review_handler.handler: 400 without terraform_code
PrCreate(p) ==
    /\ CanStart(p)
    /\ \E code \in {"", "tf"}, ctx \in Contexts :
         IF code = ""
         THEN /\ inv' = [inv EXCEPT ![p] = Return("pr_review", 400, EmptyId)]
              /\ table' = table
         ELSE /\ FreshIds(table) # {}
              /\ LET review == NewReview(FreshId(table), code, PyNone, ctx)
                 IN  /\ table' = create_review_table(table, review)
                     /\ inv' = [inv EXCEPT
                                  ![p] = Return("pr_review", 201, review.review_id)]
    /\ started' = started + 1
    /\ UNCHANGED <<ret, updates_ok, pl>>

\* webhook_handler.handler: 401 on a bad signature, 200 without a review for
\* an event type it does not handle, else handle_run_event
WebhookCreate(p) ==
    /\ CanStart(p)
    /\ \E kind \in {"bad_signature", "unhandled", "run"}, code \in {"tf"},
          ctx \in Contexts :
         IF kind # "run"
         THEN /\ inv' = [inv EXCEPT
                          ![p] = Return("webhook",
                                        IF kind = "bad_signature" THEN 401 ELSE 200,
                                        EmptyId)]
              /\ table' = table
         ELSE /\ FreshIds(table) # {}
              /\ LET review ==
                       NewReview(FreshId(table), code, PyStr("run-1"), ctx)
                 IN  /\ table' = create_review_table(table, review)
                     /\ inv' = [inv EXCEPT
                                  ![p] = Return("webhook", 200, review.review_id)]
    /\ started' = started + 1
    /\ UNCHANGED <<ret, updates_ok, pl>>

\* ReviewUpdateRequest(**data) returns (TRUE) or raises ValidationError
RequestValid(data) ==
    data.ai_review_result = Unset \/ AIResultValid(data.ai_review_result.v)

\* api_handler.update_review up to its call of db_client.update_review
ApiUpdateStart(p, results) ==
    /\ CanStart(p)
    /\ \E rid \in ReviewIds, data \in ApiUpdateInputs(results) :
         inv' = [inv EXCEPT ![p] =
                   IF ~RequestValid(data)
                   THEN Return("api_update", 400, rid)
                   ELSE IF get_review(table, rid, PyNone) = PyNone
                   THEN Return("api_update", 404, rid)
                   ELSE Running("update_read", "api_update", "api", rid, data,
                                PyNone, TRUE, "ctx_joinable", PyNone)]
    /\ started' = started + 1
    /\ UNCHANGED <<table, ret, updates_ok, pl>>

\* ai_reviewer.handler up to its first update_review
AiStart(p) ==
    /\ CanStart(p)
    /\ \E rid \in ReviewIds \cup {EmptyId}, code \in {"", "tf"},
          ctx \in Contexts :
         IF rid = EmptyId
         THEN IF code = ""
              THEN /\ inv' = [inv EXCEPT
                               ![p] = Return("ai_reviewer", 400, EmptyId)]
                   /\ table' = table
              ELSE /\ FreshIds(table) # {}
                   /\ LET review == NewReview(FreshId(table), code, PyNone, ctx)
                      IN  /\ table' = create_review_table(table, review)
                          /\ inv' = [inv EXCEPT ![p] =
                                 Running("update_read", "ai_reviewer",
                                         "in_progress", review.review_id,
                                         UpdateData(Val("in_progress"), Unset, Unset),
                                         PyNone, FALSE, ctx, PyNone)]
         ELSE /\ table' = table
              /\ LET existing == get_review(table, rid, PyNone)
                 IN  inv' = [inv EXCEPT ![p] =
                        IF existing = PyNone
                        THEN Return("ai_reviewer", 404, rid)
                        ELSE Running("update_read", "ai_reviewer", "in_progress",
                                     rid,
                                     UpdateData(Val("in_progress"), Unset, Unset),
                                     PyNone, TRUE, existing.spacelift_context,
                                     existing)]
    /\ started' = started + 1
    /\ UNCHANGED <<ret, updates_ok, pl>>

\* where an invocation goes when update_review or review_terraform raises:
\* the API answers 400; ai_reviewer's except block records 'failed' when the
\* event carried a review_id, and swallows what that update raises
AfterRaise(r) ==
    IF r.handler = "api_update" THEN Return("api_update", 400, r.review_id)
    ELSE IF r.phase = "failed" \/ ~r.event_has_id
    THEN Return("ai_reviewer", 500, r.review_id)
    ELSE Running("update_read", "ai_reviewer", "failed", r.review_id,
                 UpdateData(Val("failed"), Unset, Unset), PyNone,
                 r.event_has_id, r.ctx, r.existing)

\* where an invocation goes when update_review has returned
AfterUpdate(r, row, replaced) ==
    IF r.handler = "api_update"
    THEN Returned("api_update", 200, r.review_id, r.current.version, row, replaced)
    ELSE IF r.phase = "in_progress" THEN [r EXCEPT !.pc = "review"]
    ELSE IF r.phase = "completed"
    THEN Returned("ai_reviewer", 200, r.review_id, r.current.version, row, replaced)
    ELSE Returned("ai_reviewer", 500, r.review_id, r.current.version, row, replaced)

\* update_review: current = self.get_review(review_id)
UpdateRead(p) ==
    /\ inv[p].pc = "update_read"
    /\ LET current == get_review(table, inv[p].review_id, PyNone)
       IN  inv' = [inv EXCEPT ![p] =
                     IF current = PyNone THEN AfterRaise(inv[p])
                     ELSE [inv[p] EXCEPT !.pc = "update_write",
                                         !.current = current]]
    /\ UNCHANGED <<table, ret, updates_ok, started, pl>>

\* update_review: Review(**{...}) and create_review(new_review)
UpdateWrite(p) ==
    /\ inv[p].pc = "update_write"
    /\ LET r == inv[p]
           out == update_review_from(table, r.current, r.review_id, r.data)
           replaced == get_item(table, r.review_id,
                                VersionKey(r.current.version + 1)) # PyNone
       IN  /\ table' = out.table
           /\ inv' = [inv EXCEPT ![p] =
                        IF out.raised = "no" THEN AfterUpdate(r, out.row, replaced)
                        ELSE AfterRaise(r)]
    /\ UNCHANGED <<ret, updates_ok, started, pl>>

\* ai_reviewer.handler: review_terraform, ai_result.review_id = review_id
AiReview(p) ==
    /\ inv[p].pc = "review"
    /\ LET r == inv[p]
       IN  IF review_terraform_raises("pr_review", r.ctx) # "no"
           THEN inv' = [inv EXCEPT ![p] = AfterRaise(r)]
           ELSE \E res \in review_terraform_results("pr_review") :
                  inv' = [inv EXCEPT ![p] =
                     [r EXCEPT !.pc = "update_read", !.phase = "completed",
                               !.data = UpdateData(Val("completed"),
                                           Val([res EXCEPT !.review_id = r.review_id]),
                                           Unset)]]
    /\ UNCHANGED <<table, ret, updates_ok, started, pl>>

Init ==
    /\ table = {}
    /\ ret = NoRet
    /\ updates_ok = [r \in ReviewIds |-> 0]
    /\ inv = [p \in Procs |-> Idle]
    /\ started = 0
    /\ pl = Idle

Next ==
    \E p \in Procs :
        \/ ApiCreate(p)
        \/ PrCreate(p)
        \/ WebhookCreate(p)
        \/ ApiUpdateStart(p, ClientResults \cup RejectedResults)
        \/ AiStart(p)
        \/ UpdateRead(p)
        \/ UpdateWrite(p)
        \/ AiReview(p)

Spec == Init /\ [][Next]_vars

(***************************************************************************)
(* SpecRace: Spec with API traffic only (creates and concurrent updates).  *)
(***************************************************************************)
NextRace ==
    \E p \in Procs :
        \/ ApiCreate(p)
        \/ ApiUpdateStart(p, {AIResult(EmptyId, 20, <<>>, FALSE)})
        \/ UpdateRead(p)
        \/ UpdateWrite(p)

SpecRace == Init /\ [][NextRace]_vars

(***************************************************************************)
(* Claims about concurrent handlers (SpecRace, Spec)                       *)
(***************************************************************************)
\* two update_review calls that have returned to the API handler without an
\* error, having read the same version of the same review
BothReadSameVersion(p, q) ==
    /\ p # q
    /\ inv[p].pc = "returned" /\ inv[q].pc = "returned"
    /\ inv[p].handler = "api_update" /\ inv[q].handler = "api_update"
    /\ inv[p].status_code = 200 /\ inv[q].status_code = 200
    /\ inv[p].review_id = inv[q].review_id
    /\ inv[p].read_version = inv[q].read_version

\* C4: when two update_review calls on one review id have both read version
\* n and both returned without an error, both wrote version n + 1: one of
\* them wrote over a row that was already there, the table holds one row of
\* version n + 1, and of two different updates at most one is in the table.
C4_SameVersionReadLosesAnUpdate ==
    \A p \in Procs, q \in Procs :
        BothReadSameVersion(p, q) =>
            /\ inv[p].row.version = inv[p].read_version + 1
            /\ inv[q].row.version = inv[p].read_version + 1
            /\ inv[p].replaced \/ inv[q].replaced
            /\ Cardinality({it \in RowsOf(table, inv[p].review_id) :
                               it.version = inv[p].read_version + 1}) = 1
            /\ inv[p].row # inv[q].row =>
                   ~(Stored(table, inv[p].row) /\ Stored(table, inv[q].row))

\* the execution of C4 has happened: p and q read the same version, p wrote
\* first, q wrote later over p's row, both were answered 200, and the table
\* holds q's update and not p's
C4_Witness ==
    \E p \in Procs, q \in Procs :
        /\ BothReadSameVersion(p, q)
        /\ ~inv[p].replaced /\ inv[q].replaced
        /\ inv[p].row # inv[q].row
        /\ Stored(table, inv[q].row)
        /\ ~Stored(table, inv[p].row)

\* status changes the state machine of the spec allows
AllowedTransitions ==
    {<<"pending", "in_progress">>, <<"in_progress", "completed">>,
     <<"in_progress", "failed">>}

\* C7: along the version chain of every review, consecutive versions only
\* follow pending -> in_progress, in_progress -> completed and
\* in_progress -> failed (a version that keeps the status of the one before
\* it is not a transition); so completed and failed are never followed by
\* a different status.
C7_StatusFollowsStateMachine ==
    \A a \in table, b \in table :
        (a.PK = b.PK /\ b.version = a.version + 1) =>
            \/ a.status = b.status
            \/ <<a.status, b.status>> \in AllowedTransitions

\* overall_risk_score and the confidence_score of every Finding are in [0,1]
ScoresInRange(v) ==
    /\ v.overall_risk_score \in 0..100
    /\ \A i \in DOMAIN v.findings : v.findings[i].confidence_score \in 0..100
    /\ \A i \in DOMAIN v.cost_optimizations :
          v.cost_optimizations[i].confidence_score \in 0..100
    /\ \A i \in DOMAIN v.single_points_of_failure :
          v.single_points_of_failure[i].confidence_score \in 0..100

\* C18: every AI result stored in a review version, and every result that
\* review_terraform has returned to ai_reviewer, has its overall_risk_score
\* and the confidence_score of each of its findings in [0,1].
C18_ScoresInUnitInterval ==
    /\ \A it \in table :
          it.ai_review_result.t = "AIReviewResult" =>
              ScoresInRange(_deserialize(it).ai_review_result)
    /\ \A p \in Procs :
          (/\ inv[p].pc \in {"update_read", "update_write"}
           /\ inv[p].handler = "ai_reviewer"
           /\ inv[p].phase = "completed")
          => ScoresInRange(inv[p].data.ai_review_result.v)

\* a PUT with a score of 1.5 was answered 400, and the table holds both a
\* client's result and the result ai_reviewer got from review_terraform
C18_Witness ==
    /\ \E it \in table :
          /\ it.ai_review_result.t = "AIReviewResult"
          /\ it.ai_review_result.error
    /\ \E it \in table :
          /\ it.ai_review_result.t = "AIReviewResult"
          /\ ~it.ai_review_result.error
    /\ \E p \in Procs :
          /\ inv[p].pc = "returned"
          /\ inv[p].handler = "ai_reviewer"
          /\ inv[p].status_code = 200

\* the invocation record of a create path that has just written review rid
CreatedBy(r, rid) ==
    /\ r.pc # "idle"
    /\ r.review_id = rid
    /\ \/ r.handler \in {"api_create", "pr_review", "webhook"}
       \/ r.handler = "ai_reviewer" /\ r.pc = "update_read" /\ ~r.event_has_id

\* C8: a review enters the store once, through a create path, and the row
\* written then has version 1, status pending, no AI result and no
\* previous-version link; no later step writes its version-1 row again.
C8_EntersOnceAsPendingVersion1 ==
    [][ \A rid \in ReviewIds :
          /\ (RowsOf(table, rid) = {} /\ RowsOf(table', rid) # {}) =>
                /\ \E p \in Procs : inv'[p] # inv[p] /\ CreatedBy(inv'[p], rid)
                /\ \A it \in RowsOf(table', rid) :
                      /\ it.version = 1
                      /\ it.status = "pending"
                      /\ it.ai_review_result = PyNone
                      /\ it.previous_version_id = PyNone
          /\ \A it \in RowsOf(table, rid) : it.version = 1 => it \in table' ]_vars

(***************************************************************************)
(* SpecPipeline: one BedrockService.review_terraform call, step by step.   *)
(* pl.model is the index in MODELS of the backend being tried, pl.attempt  *)
(* the loop variable of _invoke_model, pl.failures the reason each backend *)
(* tried so far was given up, pl.waits the arguments of time.sleep,        *)
(* pl.order the backends in the order they were first invoked, pl.last how *)
(* the latest attempt ended, pl.calls the backend of every pass of the     *)
(* retry loop of _invoke_model.                                            *)
(***************************************************************************)
Call(entry, pc, prompt_type, ctx, model, attempt, text, failures, waits, result, raised) ==
    [entry |-> entry, pc |-> pc, prompt_type |-> prompt_type, ctx |-> ctx,
     model |-> model, attempt |-> attempt, text |-> text, order |-> <<>>,
     last |-> "", calls |-> <<>>,
     failures |-> failures, waits |-> waits, result |-> result,
     raised |-> raised]

\* the three methods that loop over MODELS, with the task type each validates
\* against; review_terraform takes its task type from the caller
Entries == {"review_terraform", "analyze_failure", "compare_fix_effectiveness"}

EntryPromptTypes(entry) ==
    IF entry = "review_terraform" THEN PromptTypes
    ELSE IF entry = "analyze_failure" THEN {"failure_analysis"}
    ELSE {"fix_effectiveness"}

\* what a method returns when the loop over MODELS ends
FallbackOf(entry) ==
    IF entry = "review_terraform" THEN _create_fallback_result
    ELSE IF entry = "analyze_failure" THEN _create_fallback_failure_analysis
    ELSE _create_fallback_fix_analysis

RECURSIVE Pow2(_)
Pow2(n) == IF n = 0 THEN 1 ELSE 2 * Pow2(n - 1)

\* the loop body raised exc for the current backend, which is tried again
ModelFailed_same_backend(c, exc, kind) ==
    [c EXCEPT !.pc = "invoke", !.attempt = 0,
              !.failures = Append(c.failures, kind)]

\* the loop body raised exc and the loop goes on with the last backend
ModelFailed_to_last(c, exc, kind) ==
    IF c.model < Len(MODELS)
    THEN [c EXCEPT !.pc = "invoke", !.model = Len(MODELS), !.attempt = 0,
                   !.failures = Append(c.failures, kind)]
    ELSE [c EXCEPT !.pc = "returned", !.failures = Append(c.failures, kind),
                   !.result = FallbackOf(c.entry)]

\* the loop body of review_terraform raised exc for the current backend:
\* 'continue' to the next one, or leave the loop and return the fallback
ModelFailed(c, exc, kind) ==
    LET failures == Append(c.failures, kind)
    IN  IF ~CaughtByLoop(exc)
        THEN [c EXCEPT !.pc = "raised", !.raised = exc]
        ELSE IF c.model < Len(MODELS)
        THEN [c EXCEPT !.pc = "invoke", !.model = @ + 1, !.attempt = 0,
                       !.failures = failures]
        ELSE [c EXCEPT !.pc = "returned", !.failures = failures,
                       !.result = FallbackOf(c.entry)]

\* the method up to its loop.  review_terraform compiles the prompt outside
\* the try; the other two get arguments of their declared types
PlStart ==
    /\ pl.pc = "idle"
    /\ \E entry \in Entries :
         \E prompt_type \in EntryPromptTypes(entry), ctx \in Contexts :
          LET exc == IF entry = "review_terraform"
                     THEN _get_prompt_template(prompt_type, ctx) ELSE "no"
              c == Call(entry, "invoke", prompt_type, ctx, 1, 0, "", <<>>, <<>>,
                        PyNone, "no")
          IN  /\ entry # "review_terraform" => ctx = "ctx_joinable"
              /\ pl' = IF exc = "no" THEN c
                       ELSE [c EXCEPT !.pc = "raised", !.model = 0, !.raised = exc]
    /\ UNCHANGED <<table, ret, updates_ok, inv, started>>

\* one pass of the retry loop of _invoke_model
PlInvoke ==
    /\ pl.pc = "invoke"
    /\ \E outcome \in Outcomes, text \in Texts :
          LET family == MODELS[pl.model].family
              did == _invoke_model_attempt(family, pl.attempt, outcome)
              c == [pl EXCEPT !.last = Attempted(family, outcome),
                              !.calls = Append(@, pl.model),
                              !.order =
                        IF @ # <<>> /\ @[Len(@)] = pl.model THEN @
                        ELSE Append(@, pl.model)]
          IN  /\ outcome # "text" => text = "valid"
              /\ pl' = IF did.do = "return"
                       THEN [c EXCEPT !.pc = "parse", !.text = text]
                       ELSE IF did.do = "sleep" THEN [c EXCEPT !.pc = "sleep"]
                       ELSE ModelFailed(c, did.exc, "invocation")
    /\ UNCHANGED <<table, ret, updates_ok, inv, started>>

\* time.sleep(backoff * (2 ** attempt)); continue
PlSleep ==
    /\ pl.pc = "sleep"
    /\ pl' = [pl EXCEPT !.pc = "invoke", !.attempt = @ + 1,
                        !.waits = Append(@, backoff * Pow2(pl.attempt))]
    /\ UNCHANGED <<table, ret, updates_ok, inv, started>>

\* _parse_and_validate_json; analyze_failure and compare_fix_effectiveness
\* return the parsed dict
PlParse ==
    /\ pl.pc = "parse"
    /\ LET exc == _parse_and_validate_json(pl.text, pl.prompt_type)
       IN  pl' = IF exc # "no"
                 THEN ModelFailed(pl, exc, IF pl.text = "not_json"
                                           THEN "parse" ELSE "schema")
                 ELSE IF pl.entry = "review_terraform"
                 THEN [pl EXCEPT !.pc = "build"]
                 ELSE [pl EXCEPT !.pc = "returned",
                                 !.result = ParsedResult(pl.model, json_loads(pl.text))]
    /\ UNCHANGED <<table, ret, updates_ok, inv, started>>

PlBuild ==
    /\ pl.pc = "build"
    /\ LET built == _build_review_result(json_loads(pl.text))
       IN  pl' = IF built.raised = "no"
                 THEN [pl EXCEPT !.pc = "returned", !.result = built.result]
                 ELSE ModelFailed(pl, built.raised, "build")
    /\ UNCHANGED <<table, ret, updates_ok, inv, started>>

NextPipeline == PlStart \/ PlInvoke \/ PlSleep \/ PlParse \/ PlBuild

SpecPipeline == Init /\ [][NextPipeline]_vars

\* a call that has started goes on until it returns or raises: the method
\* runs in one thread and time.sleep returns
SpecPipelineFair ==
    SpecPipeline /\ WF_vars(PlInvoke \/ PlSleep \/ PlParse \/ PlBuild)

(***************************************************************************)
(* Claims about review_terraform (SpecPipeline)                            *)
(***************************************************************************)
\* every backend of MODELS was tried and given up for one of the reasons
\* "invocation" (error after the retries), "parse" or "schema"
EveryBackendFailed ==
    /\ pl.pc # "idle"
    /\ pl.entry = "review_terraform"
    /\ Len(pl.failures) = Len(MODELS)
    /\ \A i \in DOMAIN pl.failures :
          pl.failures[i] \in {"invocation", "parse", "schema"}

\* C9: no failure of a backend (invocation error after its retries,
\* unparseable or schema-invalid response) is raised by review_terraform,
\* and when every backend has failed the call returns the fallback
\* aggregate: both scores 0.5, empty lists, one recommendation.
C9_AllBackendsFailReturnsFallback ==
    /\ pl.pc = "raised" => pl.failures = <<>> /\ pl.model = 0
    /\ EveryBackendFailed =>
          /\ pl.pc = "returned"
          /\ pl.result = _create_fallback_result
          /\ pl.result.overall_risk_score = 50
          /\ pl.result.reliability_score = 50
          /\ pl.result.findings = <<>>
          /\ pl.result.cost_optimizations = <<>>
          /\ pl.result.single_points_of_failure = <<>>
          /\ pl.result.fix_suggestions = <<>>
          /\ Len(pl.result.recommendations) = 1

\* every backend failed, one of each kind, the throttled one after its
\* three attempts, and the call has returned
C9_Witness ==
    /\ EveryBackendFailed
    /\ pl.pc = "returned"
    /\ {pl.failures[i] : i \in DOMAIN pl.failures} =
          {"invocation", "parse", "schema"}
    /\ Len(pl.waits) = max_retries - 1

\* C10: review_terraform never raises to its caller, and what it returns is
\* a well-formed AIReviewResult, for every prompt_type, context and backend
\* behaviour.
C10_ReviewTerraformIsTotal ==
    /\ pl.pc # "raised"
    /\ (pl.pc = "returned" /\ pl.entry = "review_terraform") =>
          pl.result # PyNone /\ AIResultValid(pl.result)

\* C11: first success wins: when a backend's invocation has succeeded and
\* its response has parsed and passed validation, review_terraform returns
\* the result built from that response and invokes no further backend.
C11_FirstSuccessWins ==
    [][ (pl.pc = "build" /\ pl.entry = "review_terraform") =>
          /\ pl'.pc = "returned"
          /\ pl'.model = pl.model
          /\ pl'.order = pl.order
          /\ pl'.result # _create_fallback_result ]_vars

\* C12: in each of the three methods the backends are invoked in the order
\* of MODELS without skipping or returning: the backends invoked so far are
\* 1..n in that order, and the one being tried is invoked after each one
\* before it was invoked and given up.
C12_BackendsInListOrder ==
    (pl.pc \in {"invoke", "sleep", "parse", "build", "returned"}) =>
        /\ pl.order = [i \in 1..Len(pl.order) |-> i]
        /\ Len(pl.order) <= Len(MODELS)
        /\ pl.pc # "returned" =>
              /\ Len(pl.failures) = pl.model - 1
              /\ Len(pl.order) \in {pl.model - 1, pl.model}
        /\ \A j \in DOMAIN pl.order : j <= Len(pl.failures) + 1

\* analyze_failure returned the response of the third backend, after the
\* first and the second were invoked and given up
C12_Witness ==
    /\ pl.pc = "returned"
    /\ pl.entry = "analyze_failure"
    /\ pl.order = <<1, 2, 3>>
    /\ Len(pl.failures) = 2
    /\ pl.result.t = "parsed"
    /\ pl.result.model = 3

C15_BadResponseFailsThatBackendOnly ==
    [][ (/\ pl.pc = "parse"
         /\ pl.entry = "review_terraform"
         /\ _parse_and_validate_json(pl.text, pl.prompt_type) # "no") =>
          /\ pl'.pc # "raised"
          /\ Len(pl'.failures) = Len(pl.failures) + 1
          /\ pl'.waits = pl.waits
          /\ IF pl.model < Len(MODELS)
             THEN /\ pl'.pc = "invoke"
                  /\ pl'.model = pl.model + 1
                  /\ pl'.attempt = 0
             ELSE /\ pl'.pc = "returned"
                  /\ pl'.result = _create_fallback_result ]_vars

\* backends 1 and 2 each answered once, one with text that is no JSON and
\* one with a JSON object the schema rejects, and backend 3 is up next
C15_Witness ==
    /\ pl.pc = "invoke"
    /\ pl.entry = "review_terraform"
    /\ pl.failures = <<"parse", "schema">>
    /\ pl.model = 3 /\ pl.attempt = 0
    /\ pl.waits = <<>>

\* passes of the retry loop made for backend number m
CallsOf(c, m) == Cardinality({i \in DOMAIN c.calls : c.calls[i] = m})

\* C38: every call of review_terraform ends, whatever the backends do: each
\* backend is invoked at most 3 times and the 3 backends at most 9 times in
\* all, and a backend is waited on at most twice, 1s after its first
\* invocation and 2s after its second
C38_PipelineTerminatesWithinBounds ==
    /\ [](pl.pc # "idle" =>
            /\ \A m \in DOMAIN MODELS : CallsOf(pl, m) <= 3
            /\ Len(pl.calls) <= 9
            /\ Len(pl.waits) <= 2 * Cardinality({pl.calls[i] : i \in DOMAIN pl.calls}))
    /\ [][ (pl.pc # "idle" /\ pl'.waits # pl.waits) =>
              /\ CallsOf(pl, pl.model) \in {1, 2}
              /\ pl'.waits = Append(pl.waits, CallsOf(pl, pl.model)) ]_vars
    /\ (pl.pc # "idle") ~> (pl.pc \in {"returned", "raised"})

\* every backend was throttled three times: nine invocations, two waits for
\* each backend, and the fallback was returned
C38_Witness ==
    /\ pl.pc = "returned"
    /\ pl.entry = "review_terraform"
    /\ Len(pl.calls) = 9
    /\ pl.waits = <<1, 2, 1, 2, 1, 2>>
    /\ pl.result = _create_fallback_result

(***************************************************************************)
(* SpecInvoke: one _invoke_model call, for any model_config.               *)
(***************************************************************************)
\* what model_config['id'].lower() holds: 'claude', 'llama', or neither
Families == {"claude", "llama", "titan"}

IvStart ==
    /\ pl.pc = "idle"
    /\ \E family \in Families :
         pl' = [pc |-> "iv_attempt", family |-> family, attempt |-> 0,
                outcomes |-> <<>>, waits |-> <<>>, text |-> "", raised |-> "no"]
    /\ UNCHANGED <<table, ret, updates_ok, inv, started>>

IvAttempt ==
    /\ pl.pc = "iv_attempt"
    /\ \E outcome \in Outcomes, text \in Texts :
         LET did == _invoke_model_attempt(pl.family, pl.attempt, outcome)
             c == [pl EXCEPT !.outcomes = Append(@, Attempted(pl.family, outcome))]
         IN  /\ did.do # "return" => text = "valid"
             /\ pl' = IF did.do = "return"
                      THEN [c EXCEPT !.pc = "iv_returned", !.text = text]
                      ELSE IF did.do = "sleep" THEN [c EXCEPT !.pc = "iv_sleep"]
                      ELSE [c EXCEPT !.pc = "iv_raised", !.raised = did.exc]
    /\ UNCHANGED <<table, ret, updates_ok, inv, started>>

IvSleep ==
    /\ pl.pc = "iv_sleep"
    /\ pl' = [pl EXCEPT !.pc = "iv_attempt", !.attempt = @ + 1,
                        !.waits = Append(@, backoff * Pow2(pl.attempt))]
    /\ UNCHANGED <<table, ret, updates_ok, inv, started>>

NextInvoke == IvStart \/ IvAttempt \/ IvSleep

SpecInvoke == Init /\ [][NextInvoke]_vars

\* C14: a permanent failure (a client error other than throttling, or a
\* backend id that matches no invocation strategy) is the last attempt on
\* its backend: _invoke_model raises at once, with no wait after it.
C14_PermanentFailureEndsAttempts ==
    (pl.pc \in {"iv_attempt", "iv_sleep", "iv_returned", "iv_raised"}) =>
        \A i \in DOMAIN pl.outcomes :
            pl.outcomes[i] \in {"client_error", "unsupported"} =>
                /\ i = Len(pl.outcomes)
                /\ pl.pc = "iv_raised"
                /\ Len(pl.waits) = i - 1

(***************************************************************************)
(* SpecValidator: _validate_schema applied to one parsed response.         *)
(***************************************************************************)
\* values a backend can put where a score is expected
ScoreValues ==
    {Num(0 - 1), Num(0), Num(50), Num(100), Num(101), PyStr("0.5"), PyNone,
     List(<<>>)}

\* values a backend can put where a list is expected
ListValues == {List(<<>>), PyStr("none"), PyNone, Missing}

\* responses that lack any set of top-level keys
KeyVariants == {Without(FullPayload, S) : S \in SUBSET TopLevelKeys}

\* responses with all top-level keys and any values in the validated places
ValueVariants ==
    {[FullPayload EXCEPT
        !["security_analysis"] = SecurityData(Num(0), Num(0), Num(0), Num(0), findings),
        !["cost_analysis"] = CostData(monthly, optimizations),
        !["reliability_analysis"] = ReliabilityData(score, List(<<>>)),
        !["overall_risk_score"] = overall] :
        findings \in ListValues, optimizations \in ListValues,
        monthly \in {Num(1000), PyStr("1000")},
        score \in ScoreValues \cup {Missing}, overall \in ScoreValues}

\* responses whose analyses are not JSON objects
ShapeVariants ==
    {[FullPayload EXCEPT ![k] = v] :
        k \in {"security_analysis", "cost_analysis", "reliability_analysis"},
        v \in {PyStr("n/a"), PyNone, Num(0), List(<<>>)}}

ValidatorPayloads == KeyVariants \cup ValueVariants \cup ShapeVariants

InitValidator ==
    /\ table = {}
    /\ ret = NoRet
    /\ updates_ok = [r \in ReviewIds |-> 0]
    /\ inv = [p \in Procs |-> Idle]
    /\ started = 0
    /\ pl \in {[pc |-> "validate", data |-> d, prompt_type |-> pt, raised |-> "no"] :
                 d \in ValidatorPayloads, pt \in PromptTypes}

Validate ==
    /\ pl.pc = "validate"
    /\ pl' = [pl EXCEPT !.pc = "validated",
                        !.raised = _validate_schema(pl.data, pl.prompt_type)]
    /\ UNCHANGED <<table, ret, updates_ok, inv, started>>

NextValidator == Validate

SpecValidator == InitValidator /\ [][NextValidator]_vars

(***************************************************************************)
(* Claims about the validator (SpecValidator)                              *)
(***************************************************************************)
\* a value that is there and is not a list
PresentNotList(v) == v.t \notin {"list", "missing"}

\* a value that is no number in [0,1]
NotScore(v) == ~(v.t = "num" /\ 0 <= v.n /\ v.n <= 100)

\* C16: for pr_review the validator rejects every payload in which
\* security_analysis.findings or cost_analysis.cost_optimizations is not a
\* list, or reliability_score or overall_risk_score is no number in [0,1].
C16_PrReviewValidatorRejects ==
    (/\ pl.pc = "validated"
     /\ pl.prompt_type = "pr_review"
     /\ LET d == pl.data
        IN  \/ PresentNotList(Get(d["security_analysis"], "findings"))
            \/ PresentNotList(Get(d["cost_analysis"], "cost_optimizations"))
            \/ NotScore(Get(d["reliability_analysis"], "reliability_score"))
            \/ NotScore(d["overall_risk_score"]))
    => pl.raised # "no"

\* C17: the validator rejects a payload that lacks a required top-level key
\* of its task type (six keys for pr_review, three for failure_analysis,
\* three for fix_effectiveness), and every payload of an unknown task type.
C17_MissingRequiredKeyRejected ==
    pl.pc = "validated" =>
        LET lacks(keys) == \E k \in keys : pl.data[k] = Missing
        IN  /\ (pl.prompt_type = "pr_review" /\
                  lacks({"security_analysis", "cost_analysis",
                         "reliability_analysis", "overall_risk_score",
                         "fix_suggestions", "review_metadata"}))
                 => pl.raised # "no"
            /\ (pl.prompt_type = "failure_analysis" /\
                  lacks({"root_cause", "recommendations", "confidence_score"}))
                 => pl.raised # "no"
            /\ (pl.prompt_type = "fix_effectiveness" /\
                  lacks({"fix_effectiveness_score", "findings_resolved",
                         "risk_reduction"}))
                 => pl.raised # "no"
            /\ pl.prompt_type \notin {"pr_review", "failure_analysis",
                                     "fix_effectiveness"}
                 => pl.raised # "no"

\* a fix_effectiveness payload that lacks risk_reduction alone was rejected
C17_Witness ==
    /\ pl.pc = "validated"
    /\ pl.prompt_type = "fix_effectiveness"
    /\ pl.data = Without(FullPayload, {"risk_reduction"})
    /\ pl.raised = "ValueError"

(***************************************************************************)
(* SpecBuilder: _build_review_result applied to one parsed response.       *)
(***************************************************************************)
\* findings as a backend reports them, with any confidence it likes
ReportedFindings ==
    {ReportedFinding(severity, line_number, file_path, Num(confidence)) :
        severity \in {"high", "medium", "low"},
        line_number \in {PyNone, Num(1200)},
        file_path \in {PyNone, PyStr("main.tf")},
        confidence \in {10, 95, 150}}

FindingLists == {List(<<>>)} \cup {List(<<f>>) : f \in ReportedFindings}

ShortLists ==
    {List(<<>>), List(<<ReportedFinding("high", PyNone, PyNone, Num(10))>>)}

\* parsed responses with the six pr_review keys; overall_risk_score absent,
\* null, below 0, in [0,1] or above 1
BuilderPayloads ==
    {[FullPayload EXCEPT
        !["security_analysis"] =
            SecurityData(Num(100 * Len(findings.v)), Num(0), Num(0), Num(0), findings),
        !["cost_analysis"] = CostData(Num(1000), optimizations),
        !["reliability_analysis"] = ReliabilityData(Num(80), spofs),
        !["overall_risk_score"] = overall,
        !["review_metadata"] = [t |-> "dict", model_used |-> model_used]] :
        findings \in FindingLists, optimizations \in ShortLists,
        spofs \in ShortLists,
        overall \in {Missing, PyNone, Num(0 - 10), Num(0), Num(30), Num(100),
                     Num(150)},
        model_used \in {Missing, PyStr("claude-3-opus")}}

InitBuilder ==
    /\ table = {}
    /\ ret = NoRet
    /\ updates_ok = [r \in ReviewIds |-> 0]
    /\ inv = [p \in Procs |-> Idle]
    /\ started = 0
    /\ pl \in {[pc |-> "build", data |-> d, raised |-> "no", result |-> PyNone] :
                 d \in BuilderPayloads}

Build ==
    /\ pl.pc = "build"
    /\ LET built == _build_review_result(pl.data)
       IN  pl' = [pl EXCEPT !.pc = "built", !.raised = built.raised,
                            !.result = built.result]
    /\ UNCHANGED <<table, ret, updates_ok, inv, started>>

NextBuilder == Build

SpecBuilder == InitBuilder /\ [][NextBuilder]_vars

(***************************************************************************)
(* Claims about the result builder (SpecBuilder)                           *)
(***************************************************************************)
\* a pr_review payload from which the three analyses can be built
Buildable(data) ==
    /\ _validate_pr_review_schema([data EXCEPT !["overall_risk_score"] = Num(0)]) = "no"
    /\ BuildAnalysesRaise(data) = "no"

\* C19: given a parsed pr_review payload, the result builder returns an
\* aggregate whose overall_risk_score is the payload's value when that is
\* present and in [0,1], and calculate_overall_risk of the three built
\* aggregates when it is absent or outside [0,1].
C19_OverallScoreTrustedOrRecomputed ==
    (pl.pc = "built" /\ Buildable(pl.data)) =>
        /\ pl.raised = "no"
        /\ LET reported == pl.data["overall_risk_score"]
           IN  Fixed(pl.result.overall_risk_score) =
                  IF Between0And1(reported) = "yes" THEN Fixed(reported.n)
                  ELSE calculate_overall_risk(BuiltSecurity(pl.data),
                                              BuiltCost(pl.data),
                                              BuiltReliability(pl.data))

\* the confidence, in thousandths, that the scoring engine gives finding f
ComputedConfidence(f, data) ==
    LET named == Get(data["review_metadata"], "model_used")
    IN  calculate_finding_confidence(
            f, IF named = Missing THEN "claude-3-5-sonnet" ELSE named.s,
            f.line_number # PyNone, f.file_path # PyNone)

\* C20: in every aggregate the result builder produces, the confidence_score
\* of each finding (security findings, cost optimizations, single points of
\* failure) is calculate_finding_confidence of that finding, the model name
\* and the presence of its line number and file path.
C20_ConfidenceIsComputed ==
    (pl.pc = "built" /\ Buildable(pl.data)) =>
        /\ pl.raised = "no"
        /\ \A list \in {pl.result.findings, pl.result.cost_optimizations,
                        pl.result.single_points_of_failure} :
              \A i \in DOMAIN list :
                  10 * list[i].confidence_score = ComputedConfidence(list[i], pl.data)

(***************************************************************************)
(* The degraded marker (SpecPipeline)                                      *)
(***************************************************************************)
\* C21: a result that review_terraform returns has the 'error' entry in its
\* review_metadata if and only if it is the fallback, that is, every backend
\* of MODELS was given up and none was built into the result
C21_DegradedMarkerIffFallback ==
    (pl.pc = "returned" /\ pl.entry = "review_terraform") =>
        /\ pl.result.t = "AIReviewResult"
        /\ pl.result.error <=> Len(pl.failures) = Len(MODELS)
        /\ Len(pl.failures) = Len(MODELS) => pl.result = _create_fallback_result

\* review_terraform returned the fallback, with the marker, after a backend
\* failed to answer and another answered with a response that did not parse
C21_Witness ==
    /\ pl.pc = "returned"
    /\ pl.entry = "review_terraform"
    /\ pl.result.error
    /\ \E i, j \in DOMAIN pl.failures :
          pl.failures[i] = "invocation" /\ pl.failures[j] = "parse"

(***************************************************************************)
(* SpecQuery: DynamoDBClient.query_reviews over the tables that            *)
(* create_review and update_review build.                                  *)
(***************************************************************************)
\* updates made before the queries, and the largest Limit a query passes
MaxQueryUpdates == 2
MaxLimit == 3

\* all sequences of n different elements of S
RECURSIVE Orderings(_, _)
Orderings(S, n) ==
    IF n = 0 \/ S = {} THEN {<<>>}
    ELSE UNION {{<<x>> \o rest : rest \in Orderings(S \ {x}, n - 1)} : x \in S}

\* response['Items'] of Table.query on an index, or of Table.scan: at most
\* 'limit' of the matching rows.  The versions of a review share the index
\* sort key and a scan has no order, so any order can be returned.
Items(matching, limit) == Orderings(matching, Min(limit, Cardinality(matching)))

\* the text f'{review.status}' puts into GSI2PK for a member of the
\* (str, Enum) class ReviewStatus: its value up to Python 3.10, and
\* 'ReviewStatus.<NAME>' from Python 3.11 on
EnumFormats == {"value", "name"}
FormatStatus(status, enum_format) ==
    IF enum_format = "value" THEN PyStr(status)
    ELSE [t |-> "str", s |-> "ReviewStatus", member |-> status]

\* the rows the three branches of query_reviews ask for
Matching(tbl, spacelift_run_id, status, enum_format) ==
    IF Truthy(spacelift_run_id)
    THEN {it \in tbl :
            it.GSI1PK = [t |-> "SPACELIFT_RUN", run |-> spacelift_run_id.s]}
    ELSE IF Truthy(status)
    THEN {it \in tbl : FormatStatus(it.GSI2PK.status, enum_format) = status}
    ELSE tbl

\* query_reviews after the fetch (lines 144-154): the return statement is in
\* the body of the for loop, so the first pass returns, and a loop over no
\* items falls off the end of the function
query_reviews(items) ==
    IF items = <<>> THEN PyNone
    ELSE LET deserialized == _deserialize(items[1])
         IN  List(<<deserialized>>)

QueryCreate ==
    /\ FreshIds(table) # {}
    /\ \E run_id \in {PyNone, PyStr("run-1")} :
         LET review == NewReview(FreshId(table), "tf", run_id, "ctx_joinable")
         IN  /\ table' = create_review_table(table, review)
             /\ ret' = [op |-> "create", review_id |-> review.review_id,
                        raised |-> "no", row |-> create_review_result(review)]
    /\ UNCHANGED <<updates_ok, inv, started, pl>>

QueryUpdate ==
    /\ UpdatesMade(ReviewIds) < MaxQueryUpdates
    /\ StoreUpdate

Query ==
    /\ \E spacelift_run_id \in {PyNone, PyStr("run-1")},
          status \in {PyNone, PyStr("pending"), PyStr("in_progress")},
          limit \in 1..MaxLimit, enum_format \in EnumFormats :
         \E items \in Items(Matching(table, spacelift_run_id, status,
                                     enum_format), limit) :
            ret' = [op |-> "query", spacelift_run_id |-> spacelift_run_id,
                    status |-> status, items |-> items,
                    result |-> query_reviews(items)]
    /\ UNCHANGED <<table, updates_ok, inv, started, pl>>

\* int(query_params.get('limit', 50)) of api_handler.get_reviews
default_limit == 50

\* api_handler.handler for routeKey 'GET /api/reviews' with no query
\* parameters: get_reviews({}) scans with Limit=50; len(reviews) raises
\* TypeError when query_reviews returned None, and the except block of
\* get_reviews answers 500
GetReviews ==
    /\ \E items \in Items(Matching(table, PyNone, PyNone, "value"),
                           default_limit) :
         LET reviews == query_reviews(items)
         IN  ret' = IF reviews = PyNone
                    THEN [op |-> "get_reviews", status_code |-> 500,
                          reviews |-> PyNone, count |-> PyNone,
                          rows |-> Cardinality(table)]
                    ELSE [op |-> "get_reviews", status_code |-> 200,
                          reviews |-> reviews, count |-> Len(reviews.v),
                          rows |-> Cardinality(table)]
    /\ UNCHANGED <<table, updates_ok, inv, started, pl>>

NextQuery == QueryCreate \/ QueryUpdate \/ Query \/ GetReviews

SpecQuery == InitStore /\ [][NextQuery]_vars

\* the rows of a sequence
Range(seq) == {seq[i] : i \in DOMAIN seq}

\* C22: query_reviews returns a list that holds, for each review id among the
\* rows fetched, exactly one entry, the fetched row of maximum version for
\* that id; it returns the empty list when no rows are fetched
C22_QueryKeepsLatestPerReview ==
    ret.op = "query" =>
        /\ ret.result # PyNone
        /\ ret.result.t = "list"
        /\ \A it \in Range(ret.items) :
              \E i \in DOMAIN ret.result.v :
                 /\ ret.result.v[i].review_id = it.review_id
                 /\ ret.result.v[i].version >= it.version
                 /\ \A j \in DOMAIN ret.result.v :
                       ret.result.v[j].review_id = it.review_id => j = i
        /\ Range(ret.result.v) \subseteq Range(ret.items)

\* C31: a GET list request with no query parameters is answered 200 with a
\* body that holds a list of reviews and a count equal to the length of that
\* list, whatever the table holds, the empty table included
C31_GetListAnswers200WithCount ==
    ret.op = "get_reviews" =>
        /\ ret.status_code = 200
        /\ ret.reviews # PyNone
        /\ ret.reviews.t = "list"
        /\ ret.count = Len(ret.reviews.v)

\* C36: every row that query_reviews(status=s) returns is the row of
\* maximum version stored for its review id, so it has status s and its
\* review currently has status s; a review whose latest version has another
\* status is not returned
C36_QueryByStatusReturnsCurrentRows ==
    (/\ ret.op = "query"
     /\ ~Truthy(ret.spacelift_run_id)
     /\ Truthy(ret.status)
     /\ ret.result # PyNone)
    => \A i \in DOMAIN ret.result.v :
          LET row == ret.result.v[i]
          IN  /\ row.version = MaxVersionOf(table, row.review_id)
              /\ row.status = ret.status.s

(***************************************************************************)
(* SpecRoundTrip: _serialize followed by _deserialize on the item of a     *)
(* Review, and the Review constructor on what comes back.                  *)
(***************************************************************************)
\* Review objects with and without each optional field
RoundTripReviews ==
    {[NewReview(rid, "tf", run_id, "ctx_joinable") EXCEPT
        !.status = status,
        !.ai_review_result = ai,
        !.version = version,
        !.previous_version_id =
            IF version = 1 THEN PyNone ELSE PreviousVersionId(rid, version - 1)] :
        rid \in ReviewIds, run_id \in {PyNone, PyStr("run-1")},
        status \in Statuses,
        ai \in {PyNone, _create_fallback_result} \cup ClientResults,
        version \in 1..2}

InitRoundTrip ==
    /\ table = {}
    /\ ret \in {[op |-> "review", review |-> r] : r \in RoundTripReviews}
    /\ updates_ok = [r \in ReviewIds |-> 0]
    /\ inv = [p \in Procs |-> Idle]
    /\ started = 0
    /\ pl = Idle

\* create_review, lines 41-54, without the put_item
RoundTrip ==
    /\ ret.op = "review"
    /\ ret' = [op |-> "round_trip", item |-> ReviewItem(ret.review),
               out |-> _deserialize(_serialize(ReviewItem(ret.review)))]
    /\ UNCHANGED <<table, updates_ok, inv, started, pl>>

\* update_review, line 98: Review(**{**current, **update_data, ...}) on the
\* record that came back
NextVersion ==
    /\ ret.op = "round_trip"
    /\ \E data \in StoreUpdateInputs :
          LET review == MergedReview(ret.out, ret.out.review_id, data)
          IN  ret' = [op |-> "next_version", current |-> ret.out,
                      update_data |-> data,
                      raised |-> IF ReviewValid(review) THEN "no"
                                 ELSE "ValidationError"]
    /\ UNCHANGED <<table, updates_ok, inv, started, pl>>

NextRoundTrip == RoundTrip \/ NextVersion

SpecRoundTrip == InitRoundTrip /\ [][NextRoundTrip]_vars

\* C23: a review record passed through _serialize and then _deserialize is
\* equal to the original field for field, an absent optional field (None)
\* is still absent, and the next version can be built from the record
C23_SerializeRoundTrip ==
    /\ ret.op = "round_trip" =>
          /\ ret.out = ret.item
          /\ \A k \in {"spacelift_run_id", "ai_review_result",
                       "previous_version_id"} :
                ret.item[k] = PyNone => ret.out[k] = PyNone
    /\ ret.op = "next_version" => ret.raised = "no"

(***************************************************************************)
(* SpecPrompt: the prompt compiler of review_terraform.  A prompt is kept  *)
(* as the values its f-string interpolates; the fixed text of a template   *)
(* is its name.  ret.now is the wall clock, ret.calls the calls made.      *)
(***************************************************************************)
MaxClock == 3
MaxCalls == 2

\* PROMPT_VERSIONS.get(prompt_type, 'v1.0')
PROMPT_VERSIONS(prompt_type) ==
    IF prompt_type = "pr_review" THEN "v2.1"
    ELSE IF prompt_type = "failure_analysis" THEN "v1.3"
    ELSE "v1.0"

\* {} and two context maps with the keys the template reads
EmptyDict == [t |-> "dict", run_id |-> Missing, stack_id |-> Missing]
PromptContexts ==
    {EmptyDict,
     [t |-> "dict", run_id |-> PyStr("run-1"), stack_id |-> PyStr("stack-1")],
     [t |-> "dict", run_id |-> PyStr("run-2"), stack_id |-> Missing]}

\* {} as the error_details of _get_failure_analysis_prompt
NoErrorDetails ==
    [t |-> "dict", error_type |-> Missing, error_message |-> Missing]

PromptCodes == {"resource a", "resource b"}

\* d.get(key, default) for a str
StrOr(v, default) == IF v = Missing THEN PyStr(default) ELSE v

\* the context summary of _get_pr_review_prompt (lines 279-289)
ContextInfo(spacelift_context) ==
    IF spacelift_context = EmptyDict THEN PyStr("")
    ELSE [t |-> "context_info",
          run_id |-> StrOr(spacelift_context.run_id, "N/A"),
          stack_id |-> StrOr(spacelift_context.stack_id, "N/A")]

\* _get_pr_review_prompt; utcnow is what datetime.utcnow() returns during the
\* call; code_length is len(terraform_code), given by 'code'
_get_pr_review_prompt(terraform_code, spacelift_context, version, utcnow) ==
    [template |-> "pr_review",
     context |-> ContextInfo(spacelift_context),
     code |-> <<terraform_code>>,
     timestamp |-> utcnow,
     prompt_version |-> version]

\* _get_failure_analysis_prompt
_get_failure_analysis_prompt(terraform_code, error_details, previous_review, version, utcnow) ==
    [template |-> "failure_analysis",
     context |-> [t |-> "error_details",
                  error_type |-> StrOr(error_details.error_type, "Unknown"),
                  error_message |-> StrOr(error_details.error_message, "N/A"),
                  previous_context |->
                      IF previous_review = PyNone THEN PyStr("")
                      ELSE previous_review],
     code |-> <<terraform_code>>,
     timestamp |-> utcnow,
     prompt_version |-> version]

\* _get_fix_effectiveness_prompt
_get_fix_effectiveness_prompt(original_code, fixed_code, original_findings, fixed_findings, version, utcnow) ==
    [template |-> "fix_effectiveness",
     context |-> [t |-> "findings", original_findings |-> original_findings,
                  fixed_findings |-> fixed_findings],
     code |-> <<original_code, fixed_code>>,
     timestamp |-> utcnow,
     prompt_version |-> version]

\* the prompt _get_prompt_template returns for the three known task types
prompt_template(prompt_type, terraform_code, spacelift_context, utcnow) ==
    LET version == PROMPT_VERSIONS(prompt_type)
    IN  IF prompt_type = "pr_review"
        THEN _get_pr_review_prompt(terraform_code, spacelift_context, version,
                                   utcnow)
        ELSE IF prompt_type = "failure_analysis"
        THEN _get_failure_analysis_prompt(terraform_code, NoErrorDetails, PyNone,
                                          version, utcnow)
        ELSE _get_fix_effectiveness_prompt("", "", <<>>, <<>>, version, utcnow)

InitPrompt ==
    /\ table = {}
    /\ ret = [op |-> "prompts", now |-> 1, calls |-> <<>>]
    /\ updates_ok = [r \in ReviewIds |-> 0]
    /\ inv = [p \in Procs |-> Idle]
    /\ started = 0
    /\ pl = Idle

\* time passes
Tick ==
    /\ ret.now < MaxClock
    /\ ret' = [ret EXCEPT !.now = @ + 1]
    /\ UNCHANGED <<table, updates_ok, inv, started, pl>>

\* review_terraform, lines 88-91
Compile ==
    /\ Len(ret.calls) < MaxCalls
    /\ \E terraform_code \in PromptCodes,
          given \in PromptContexts \cup {PyNone},
          prompt_type \in PromptTypes :
         LET spacelift_context == IF given = PyNone THEN EmptyDict ELSE given
             exc == _get_prompt_template(prompt_type, "ctx_joinable")
             call == [terraform_code |-> terraform_code,
                      spacelift_context |-> spacelift_context,
                      prompt_type |-> prompt_type,
                      version |-> PROMPT_VERSIONS(prompt_type),
                      raised |-> exc,
                      prompt |-> IF exc # "no" THEN PyNone
                                 ELSE prompt_template(prompt_type, terraform_code,
                                                      spacelift_context, ret.now)]
         IN  ret' = [ret EXCEPT !.calls = Append(@, call)]
    /\ UNCHANGED <<table, updates_ok, inv, started, pl>>

NextPrompt == Tick \/ Compile

SpecPrompt == InitPrompt /\ [][NextPrompt]_vars

\* C24: two calls of the prompt compiler with the same source text, context
\* map, task type and prompt version produce the identical prompt, whatever
\* the time of each call
C24_PromptIsDeterministic ==
    \A i \in DOMAIN ret.calls, j \in DOMAIN ret.calls :
        (/\ ret.calls[i].terraform_code = ret.calls[j].terraform_code
         /\ ret.calls[i].spacelift_context = ret.calls[j].spacelift_context
         /\ ret.calls[i].prompt_type = ret.calls[j].prompt_type
         /\ ret.calls[i].version = ret.calls[j].version)
        => ret.calls[i].prompt = ret.calls[j].prompt

\* the prompt of a call holds the source text, and the summary of the context
\* map when that has entries
EmbedsSource(call) ==
    \E k \in DOMAIN call.prompt.code : call.prompt.code[k] = call.terraform_code

EmbedsContext(call) ==
    call.spacelift_context # EmptyDict =>
        call.prompt.context = ContextInfo(call.spacelift_context)

\* C25: for each of the three task types, the prompt review_terraform
\* compiles embeds the source text and the context given to it
C25_PromptEmbedsSourceAndContext ==
    \A i \in DOMAIN ret.calls :
        ret.calls[i].prompt_type \in {"pr_review", "failure_analysis",
                                      "fix_effectiveness"}
        => EmbedsSource(ret.calls[i]) /\ EmbedsContext(ret.calls[i])

(***************************************************************************)
(* SpecScoring: the functions of risk_scoring.py applied to aggregates as  *)
(* pydantic admits them: the counts are int and the monthly cost is float  *)
(* without a range, reliability_score is in [0,1].                         *)
(***************************************************************************)
\* severity counts, and total_findings as the backend reports it
SeverityCounts == {0, 1, 2, 12}
SecurityInputs ==
    {[total_findings |-> total, high_severity |-> high,
      medium_severity |-> medium, low_severity |-> low, findings |-> <<>>] :
        total \in {0, 3}, high \in SeverityCounts, medium \in SeverityCounts,
        low \in SeverityCounts}

\* a list of n findings
NFindings(n) == [i \in 1..n |-> "finding"]

\* monthly costs in cents: -5000.00, 0, 5000.00, 10000.00, 1000000.00
MonthlyCosts == {0 - 500000, 0, 500000, 1000000, 100000000}
CostInputs ==
    {[estimated_monthly_cost |-> monthly, cost_optimizations |-> NFindings(n)] :
        monthly \in MonthlyCosts, n \in 0..6}

ReliabilityInputs ==
    {[reliability_score |-> score, single_points_of_failure |-> NFindings(n)] :
        score \in {0, 50, 90, 100}, n \in 0..4}

\* the scenario of three findings, two high and one medium
ScenarioSecurity ==
    [total_findings |-> 3, high_severity |-> 2, medium_severity |-> 1,
     low_severity |-> 0, findings |-> <<>>]

ModelNames ==
    {"claude-3-5-sonnet", "claude-3-opus", "llama3-70b", "default",
     "titan-text", "Claude-3-Opus", "LLAMA3-70B"}

SecurityScore ==
    /\ ret = NoRet
    /\ \E security \in SecurityInputs :
         ret' = [op |-> "_calculate_security_score", security |-> security,
                 score |-> _calculate_security_score(security)]
    /\ UNCHANGED <<table, updates_ok, inv, started, pl>>

CostScore ==
    /\ ret = NoRet
    /\ \E cost \in CostInputs :
         ret' = [op |-> "_calculate_cost_score", cost |-> cost,
                 score |-> _calculate_cost_score(cost)]
    /\ UNCHANGED <<table, updates_ok, inv, started, pl>>

ReliabilityScore ==
    /\ ret = NoRet
    /\ \E reliability \in ReliabilityInputs :
         ret' = [op |-> "_calculate_reliability_score",
                 reliability |-> reliability,
                 score |-> _calculate_reliability_score(reliability)]
    /\ UNCHANGED <<table, updates_ok, inv, started, pl>>

OverallRisk ==
    /\ ret = NoRet
    /\ \E security \in {s \in SecurityInputs :
                          s.medium_severity = 1 /\ s.low_severity = 0},
          cost \in CostInputs, reliability \in ReliabilityInputs :
         ret' = [op |-> "calculate_overall_risk", security |-> security,
                 cost |-> cost, reliability |-> reliability,
                 score |-> calculate_overall_risk(security, cost, reliability)]
    /\ UNCHANGED <<table, updates_ok, inv, started, pl>>

RiskLevel ==
    /\ ret = NoRet
    /\ \E hundredths \in 0..100 :
         ret' = [op |-> "get_risk_level", risk_score |-> Fixed(hundredths),
                 level |-> get_risk_level(Fixed(hundredths))]
    /\ UNCHANGED <<table, updates_ok, inv, started, pl>>

FindingConfidence ==
    /\ ret = NoRet
    /\ \E severity \in {"high", "medium", "low"}, reported \in {10, 90},
          model_used \in ModelNames, has_line_number \in BOOLEAN,
          has_file_path \in BOOLEAN :
         LET finding == [severity |-> severity, confidence_score |-> reported]
         IN  ret' = [op |-> "calculate_finding_confidence",
                     finding |-> finding, model_used |-> model_used,
                     has_line_number |-> has_line_number,
                     has_file_path |-> has_file_path,
                     confidence |->
                        calculate_finding_confidence(finding, model_used,
                            has_line_number, has_file_path)]
    /\ UNCHANGED <<table, updates_ok, inv, started, pl>>

\* get_analytics over one review with an AI result: the loop body that
\* reads overall_risk_score and counts the review in reviews_by_risk
AnalyticsRisk ==
    /\ ret = NoRet
    /\ \E hundredths \in 0..100 :
         LET key == reviews_by_risk_key(Fixed(hundredths))
         IN  ret' = [op |-> "get_analytics", risk_score |-> Fixed(hundredths),
                     reviews_by_risk |->
                        [k \in {"low", "medium", "high"} |->
                            IF k = key THEN 1 ELSE 0]]
    /\ UNCHANGED <<table, updates_ok, inv, started, pl>>

NextScoring ==
    \/ SecurityScore \/ CostScore \/ ReliabilityScore
    \/ OverallRisk \/ RiskLevel \/ FindingConfidence \/ AnalyticsRisk

SpecScoring == InitStore /\ [][NextScoring]_vars

\* a score in fixed point is in [0,1]
InUnit(score) == 0 <= score /\ score <= Fixed(100)

\* C39: get_analytics counts a review in reviews_by_risk under the bucket
\* that get_risk_level gives to the review's overall_risk_score, for every
\* score in [0,1]
C39_AnalyticsBucketIsRiskLevel ==
    ret.op = "get_analytics" =>
        /\ ret.reviews_by_risk[get_risk_level(ret.risk_score)] = 1
        /\ \A k \in {"low", "medium", "high"} \ {get_risk_level(ret.risk_score)} :
              ret.reviews_by_risk[k] = 0

\* C26: the security score is min(1, min(1, (1.0*high + 0.5*medium +
\* 0.2*low) / 10) * m), m = 1.5 when high > 0 and 1 otherwise, whatever
\* total_findings is; for high=2, medium=1, low=0 it is 0.375
C26_SecurityScoreFromCounts ==
    ret.op = "_calculate_security_score" =>
        LET high == ret.security.high_severity
            medium == ret.security.medium_severity
            low == ret.security.low_severity
            normalized == Min(Fixed(100),
                              ((10 * high + 5 * medium + 2 * low) * Fixed(100))
                                  \div 100)
            expected == IF high > 0
                        THEN Min(Fixed(100), (3 * normalized) \div 2)
                        ELSE normalized
        IN  /\ ret.score = expected
            /\ (high = 2 /\ medium = 1 /\ low = 0) => 8 * ret.score = 3 * Fixed(100)

\* C27: the security, cost and reliability risk scores are in [0,1] for
\* every aggregate; for monthly cost 5000 with 3 optimizations the cost score
\* is 0.8, for reliability 0.9 with 1 single point of failure the
\* reliability risk score is 0.2
C27_CategoryScoresInUnitInterval ==
    /\ ret.op \in {"_calculate_security_score", "_calculate_cost_score",
                   "_calculate_reliability_score"} => InUnit(ret.score)
    /\ (/\ ret.op = "_calculate_cost_score"
        /\ ret.cost.estimated_monthly_cost = 500000
        /\ Len(ret.cost.cost_optimizations) = 3) => ret.score = Fixed(80)
    /\ (/\ ret.op = "_calculate_reliability_score"
        /\ ret.reliability.reliability_score = 90
        /\ Len(ret.reliability.single_points_of_failure) = 1)
       => ret.score = Fixed(20)

\* C28: calculate_overall_risk is clamp01(0.50*security_score +
\* 0.25*cost_score + 0.25*reliability_score); on the combined scenario it is
\* 0.4375
C28_OverallRiskIsWeightedSum ==
    ret.op = "calculate_overall_risk" =>
        LET weighted == 50 * _calculate_security_score(ret.security)
                        + 25 * _calculate_cost_score(ret.cost)
                        + 25 * _calculate_reliability_score(ret.reliability)
        IN  /\ 100 * ret.score = Min(100 * Fixed(100), Max(0, weighted))
            /\ (/\ ret.security = ScenarioSecurity
                /\ ret.cost.estimated_monthly_cost = 500000
                /\ Len(ret.cost.cost_optimizations) = 3
                /\ ret.reliability.reliability_score = 90
                /\ Len(ret.reliability.single_points_of_failure) = 1)
               => 16 * ret.score = 7 * Fixed(100)

\* the combined scenario was scored, and so was an aggregate whose weighted
\* sum is below 0
C28_Witness ==
    /\ ret.op = "calculate_overall_risk"
    /\ ret.security = ScenarioSecurity
    /\ ret.cost.estimated_monthly_cost = 500000
    /\ Len(ret.cost.cost_optimizations) = 3
    /\ ret.reliability.reliability_score = 90
    /\ Len(ret.reliability.single_points_of_failure) = 1
    /\ 16 * ret.score = 7 * Fixed(100)

\* the table of base confidences, in thousandths, and its default
ConfidenceTable(name) ==
    CASE name = "claude-3-5-sonnet" -> 950
      [] name = "claude-3-opus" -> 980
      [] name = "llama3-70b" -> 850
      [] OTHER -> 800

\* base + bonus + penalty clamped to [0,1], in thousandths
ClampedConfidence(base, r) ==
    LET bonus == (IF r.has_line_number THEN 30 ELSE 0)
                 + (IF r.has_file_path THEN 20 ELSE 0)
        penalty == CASE r.finding.severity = "high" -> 0
                     [] r.finding.severity = "medium" -> 0 - 20
                     [] r.finding.severity = "low" -> 0 - 50
    IN  Min(1000, Max(0, base + bonus + penalty))

\* C29 as stated: base is the table entry for the model name and 0.80 for a
\* name that is not in the table
C29_ConfidenceFromTable ==
    ret.op = "calculate_finding_confidence" =>
        ret.confidence = ClampedConfidence(ConfidenceTable(ret.model_used), ret)

\* C29, amended: calculate_finding_confidence is clamp01(base + bonus +
\* penalty), where base is the table entry for the lower-cased model name and
\* 0.80 when the lower-cased name is not in the table
C29_ConfidenceFromLowerCasedName ==
    ret.op = "calculate_finding_confidence" =>
        ret.confidence
            = ClampedConfidence(ConfidenceTable(lower(ret.model_used)), ret)

\* a low-severity finding with a line number was scored 0.96 for a model
\* name written with capitals
C29_Witness ==
    /\ ret.op = "calculate_finding_confidence"
    /\ ret.model_used = "Claude-3-Opus"
    /\ ret.finding.severity = "low"
    /\ ret.has_line_number /\ ~ret.has_file_path
    /\ ret.confidence = 960

\* the order of the buckets
Rank(level) == IF level = "low" THEN 0 ELSE IF level = "medium" THEN 1 ELSE 2

\* C30: get_risk_level maps a score s in [0,1] to high if s >= 0.70, medium
\* if 0.40 <= s < 0.70, low if s < 0.40, and a larger score never gets a
\* lower bucket
C30_RiskLevelBuckets ==
    ret.op = "get_risk_level" =>
        /\ ret.level = "high" <=> ret.risk_score >= Fixed(70)
        /\ ret.level = "medium" <=>
              (Fixed(40) <= ret.risk_score /\ ret.risk_score < Fixed(70))
        /\ ret.level = "low" <=> ret.risk_score < Fixed(40)
        /\ \A hundredths \in 0..100 :
              Fixed(hundredths) >= ret.risk_score =>
                  Rank(get_risk_level(Fixed(hundredths))) >= Rank(ret.level)

\* the score 0.70 itself was put in the bucket high
C30_Witness ==
    /\ ret.op = "get_risk_level"
    /\ ret.risk_score = Fixed(70)
    /\ ret.level = "high"

(***************************************************************************)
(* SpecApi: POST /api/reviews and PUT /api/reviews/{reviewId}, handled by  *)
(* api_handler.create_review and api_handler.update_review, one request    *)
(* after the other.                                                        *)
(***************************************************************************)
\* a JSON object as the value of spacelift_context
JsonDict(name) == [t |-> "dict", name |-> name]

\* json.loads(body): terraform_code and spacelift_context absent, null or of
\* the declared type; spacelift_run_id absent or a string
PostBodies ==
    {[terraform_code |-> code, spacelift_run_id |-> run_id,
      spacelift_context |-> ctx] :
        code \in {Unset, Val(PyNone), Val(PyStr("tf"))},
        run_id \in {Unset, Val(PyStr("run-1"))},
        ctx \in {Unset, Val(PyNone), Val(JsonDict("ctx_joinable"))}}

\* ReviewCreateRequest(**data) returns (TRUE) or raises ValidationError:
\* terraform_code is a required str, the other two fields are Optional
CreateRequestValid(data) ==
    /\ data.terraform_code # Unset
    /\ data.terraform_code.v.t = "str"

\* data.get(key, default)
GetOr(data, key, default) == IF data[key] = Unset THEN default ELSE data[key].v

\* the Review constructor of lines 138-146: spacelift_context is declared
\* Dict[str, Any] = {}, so None is rejected
CreateReviewValid(data) ==
    GetOr(data, "spacelift_context", JsonDict("ctx_empty")).t = "dict"

\* api_handler.handler for routeKey 'POST /api/reviews': every exception of
\* create_review is answered 400
Post ==
    /\ \E data \in PostBodies :
         IF ~CreateRequestValid(data) \/ ~CreateReviewValid(data)
         THEN /\ table' = table
              /\ ret' = [op |-> "post", body |-> data, status_code |-> 400,
                         review_id |-> EmptyId]
         ELSE /\ FreshIds(table) # {}
              /\ LET review ==
                       NewReview(FreshId(table), data.terraform_code.v.s,
                                 GetOr(data, "spacelift_run_id", PyNone),
                                 GetOr(data, "spacelift_context",
                                       JsonDict("ctx_empty")).name)
                 IN  /\ table' = create_review_table(table, review)
                     /\ ret' = [op |-> "post", body |-> data,
                                status_code |-> 201,
                                review_id |-> review.review_id]
    /\ UNCHANGED <<updates_ok, inv, started, pl>>

\* json.loads(body) of a PUT: any of the three fields of ReviewUpdateRequest
PutBodies ==
    {UpdateData(st, ai, version) :
        st \in {Unset, Val("in_progress"), Val("completed")},
        ai \in {Unset} \cup {Val(r) : r \in ClientResults},
        version \in {Unset, Val(7)}}

\* api_handler.handler for routeKey 'PUT /api/reviews/{reviewId}': 400 when
\* ReviewUpdateRequest rejects the body, 404 when get_review finds no row,
\* 400 when db_client.update_review raises, else 200 with the row it returned
Put ==
    /\ UpdatesMade(ReviewIds) < MaxQueryUpdates
    /\ \E rid \in ReviewIds, data \in PutBodies :
         LET review == get_review(table, rid, PyNone)
             out == update_review(table, rid, data)
             code == IF ~RequestValid(data) THEN 400
                     ELSE IF review = PyNone THEN 404
                     ELSE IF out.raised = "no" THEN 200 ELSE 400
         IN  /\ table' = IF code = 200 THEN out.table ELSE table
             /\ ret' = [op |-> "put", review_id |-> rid, body |-> data,
                        status_code |-> code, current |-> review,
                        row |-> IF code = 200 THEN out.row ELSE PyNone]
             /\ updates_ok' = [updates_ok EXCEPT
                                 ![rid] = IF code = 200 THEN @ + 1 ELSE @]
    /\ UNCHANGED <<inv, started, pl>>

NextApi == Post \/ Put

SpecApi == InitStore /\ [][NextApi]_vars

\* C32: a POST create request whose body contains terraform_code is answered
\* 201 and adds exactly one row to the table, under a review id that had no
\* row, with version 1 and status pending; every row that was in the table
\* is still there unchanged
C32_PostAddsOnePendingRow ==
    [][ (ret'.op = "post" /\ ret'.body.terraform_code # Unset) =>
            /\ ret'.status_code = 201
            /\ \E new \in table' \ table :
                  /\ table' = table \cup {new}
                  /\ RowsOf(table, new.PK) = {}
                  /\ new.review_id = ret'.review_id
                  /\ new.version = 1
                  /\ new.status = "pending" ]_vars

\* the record fields that update_data of the callers never names
PassedOnFields ==
    {"review_id", "terraform_code", "spacelift_run_id", "spacelift_context",
     "created_at"}

\* C33: the row written by update_review(id, fields) carries, in every record
\* field that fields does not name, the value of the latest version read, and
\* in every field that fields names the supplied value; version and
\* previous_version_id are set by the store
C33_UpdateWritesMergedFields ==
    (ret.op = "put" /\ ret.status_code = 200) =>
        /\ Stored(table, ret.row)
        /\ \A k \in PassedOnFields : ret.row[k] = ret.current[k]
        /\ ret.row.status = IF ret.body.status = Unset
                            THEN ret.current.status ELSE ret.body.status.v
        /\ ret.row.ai_review_result =
              IF ret.body.ai_review_result = Unset
              THEN ret.current.ai_review_result
              ELSE ret.body.ai_review_result.v

(***************************************************************************)
(* SpecReviewer: ai_reviewer.handler invoked on a table that holds one     *)
(* review with a long version chain.  The chain is built first, by          *)
(* DynamoDBClient calls; then the handler is invoked, one invocation at a  *)
(* time.                                                                   *)
(***************************************************************************)
\* handler invocations made on the table
MaxReviewerInvocations == 2

NoneRunning == \A p \in Procs : inv[p].pc \in {"idle", "returned"}

RvCreate == table = {} /\ StoreCreate

RvUpdate == started = 0 /\ StoreUpdate

RvStart ==
    /\ NoneRunning
    /\ started < MaxReviewerInvocations
    /\ AiStart(1)

RvUpdateRead == UpdateRead(1)

RvUpdateWrite == UpdateWrite(1)

RvReview == AiReview(1)

NextReviewer ==
    \/ RvCreate
    \/ RvUpdate
    \/ RvStart
    \/ RvUpdateRead
    \/ RvUpdateWrite
    \/ RvReview

SpecReviewer == Init /\ [][NextReviewer]_vars

\* the stored row of the numerically highest version of a review
LatestRow(tbl, rid) ==
    CHOOSE it \in RowsOf(tbl, rid) : it.version = MaxVersionOf(tbl, rid)

\* invocation p of ai_reviewer returns in this step, past the existence check
AiReturns(p) ==
    /\ inv[p].pc \in {"update_read", "update_write", "review"}
    /\ inv[p].handler = "ai_reviewer"
    /\ inv'[p].pc = "returned"

\* C34: when an ai_reviewer invocation that got past the existence check
\* returns, the latest version of the review it processed has status
\* completed or failed, whether the event carried the review id or the
\* handler created the review, and whichever step raised
C34_ReviewerLeavesCompletedOrFailed ==
    [][ \A p \in Procs :
          AiReturns(p) =>
              LatestRow(table', inv'[p].review_id).status
                  \in {"completed", "failed"} ]_vars

\* C35: an ai_reviewer invocation for an existing pending review that returns
\* 200 has appended exactly two versions to the review, an in_progress one
\* and then a completed one whose AI result carries the review's id, and
\* review_terraform is called only after the in_progress version is written
C35_ReviewerAppendsInProgressThenCompleted ==
    [][ \A p \in Procs :
          /\ (/\ AiReturns(p)
              /\ inv'[p].status_code = 200
              /\ inv[p].existing # PyNone
              /\ inv[p].existing.status = "pending")
             => LET rid == inv[p].review_id
                    n == inv[p].existing.version
                    above == {it \in RowsOf(table', rid) : it.version > n}
                IN  /\ {it.version : it \in above} = {n + 1, n + 2}
                    /\ Cardinality(above) = 2
                    /\ \A it \in above :
                          IF it.version = n + 1
                          THEN it.status = "in_progress"
                          ELSE /\ it.status = "completed"
                               /\ it.ai_review_result.t = "AIReviewResult"
                               /\ it.ai_review_result.review_id = rid
                    /\ ~inv'[p].replaced
          /\ (inv[p].pc # "review" /\ inv'[p].pc = "review")
             => /\ inv[p].pc = "update_write"
                /\ inv[p].phase = "in_progress"
                /\ \E it \in RowsOf(table', inv[p].review_id) :
                      /\ it.status = "in_progress"
                      /\ it.version = inv[p].current.version + 1 ]_vars

====
